---- MODULE Spec2Model ----
(***************************************************************************)
(* Model of the self-healing scraper of parserAItovar:                     *)
(*   parser_engine/scraper.py          fetch_html, parse_products          *)
(*   parser_engine/rule_detector_ai.py _heuristic_rules, fix_rules         *)
(*   parser_engine/self_heal.py        try_scrape                          *)
(*   parser_engine/fallback_logic.py   scrape_products_with_self_heal      *)
(*                                                                         *)
(* Strings that the code inspects character by character (element text,    *)
(* price text) are sequences of one-character strings.  A selector string  *)
(* is the sequence of its comma-separated alternatives; the empty string   *)
(* is the empty sequence.  A RuleSet is a function from field names to     *)
(* selector strings (a Python dict), possibly with missing keys.           *)
(***************************************************************************)
EXTENDS Integers, Sequences, FiniteSets, TLC

\* Largest number of product containers on a modelled page.
MaxItems == 4

\* Mutant: range(3).
MaxAttempts_three == 2 + 1

\* range(2) of the request loop of fetch_html.
MaxAttempts == 2

\* Optional values: None is the empty sequence, Some(v) a one-element one.
None == <<>>
Some(v) == <<v>>

\* The first element of a sequence as an optional value.
First(seq) == IF seq = <<>> THEN None ELSE Some(Head(seq))

(***************************************************************************)
(* Python helpers                                                          *)
(***************************************************************************)

\* d.get(k, default)
DictGet(d, k, default) == IF k \in DOMAIN d THEN d[k] ELSE default

\* d.get(k) or default : a missing key and an empty string both give default
DictGetOr(d, k, default) ==
    IF k \in DOMAIN d /\ d[k] # <<>> THEN d[k] ELSE default

\* {**a, **b}
DictMerge(a, b) ==
    [k \in (DOMAIN a) \cup (DOMAIN b) |-> IF k \in DOMAIN b THEN b[k] ELSE a[k]]

\* {key: value for key, value in d.items() if key in keys}
DictRestrict(d, keys) == [k \in (DOMAIN d) \cap keys |-> d[k]]

Digits == {"0", "1", "2", "3", "4", "5", "6", "7", "8", "9"}

Whitespace == {" "}

RECURSIVE LStrip(_)
LStrip(s) == IF s # <<>> /\ Head(s) \in Whitespace THEN LStrip(Tail(s)) ELSE s

RECURSIVE RStrip(_)
RStrip(s) ==
    IF s # <<>> /\ s[Len(s)] \in Whitespace
    THEN RStrip(SubSeq(s, 1, Len(s) - 1))
    ELSE s

\* str.strip()
Strip(s) == RStrip(LStrip(s))

(***************************************************************************)
(* scraper.py: DEFAULT_RULES                                               *)
(***************************************************************************)

DEFAULT_RULES ==
    [product_item   |-> <<".product-card", ".product", ".product-item">>,
     name_selector  |-> <<".product-title", ".title", "h2", "h3">>,
     price_selector |-> <<".price", ".product-price">>,
     url_selector   |-> <<"a">>,
     category_link  |-> <<"nav a", " .menu a", " .catalog a">>]

Fields == DOMAIN DEFAULT_RULES

(***************************************************************************)
(* The CSS engine (selectolax), restricted to the selectors that occur in  *)
(* the code and in the modelled rule sets.  SelectorSpec gives the meaning *)
(* of each selector: required tag, required class, required substring of   *)
(* the class attribute, required itemprop, required substring of href.     *)
(***************************************************************************)

NoSpec == [tag |-> "", cls |-> "", clsSub |-> "", itemprop |-> "", hrefSub |-> ""]

SelectorSpec(sel) ==
    CASE sel = ".product-card"       -> [NoSpec EXCEPT !.cls = "product-card"]
      [] sel = ".product"            -> [NoSpec EXCEPT !.cls = "product"]
      [] sel = ".product-item"       -> [NoSpec EXCEPT !.cls = "product-item"]
      [] sel = ".product-title"      -> [NoSpec EXCEPT !.cls = "product-title"]
      [] sel = ".product-price"      -> [NoSpec EXCEPT !.cls = "product-price"]
      [] sel = ".title"              -> [NoSpec EXCEPT !.cls = "title"]
      [] sel = ".price"              -> [NoSpec EXCEPT !.cls = "price"]
      [] sel = ".item"               -> [NoSpec EXCEPT !.cls = "item"]
      [] sel = ".badge"              -> [NoSpec EXCEPT !.cls = "badge"]
      [] sel = ".old-card"           -> [NoSpec EXCEPT !.cls = "old-card"]
      [] sel = "h2"                  -> [NoSpec EXCEPT !.tag = "h2"]
      [] sel = "h3"                  -> [NoSpec EXCEPT !.tag = "h3"]
      [] sel = "a"                   -> [NoSpec EXCEPT !.tag = "a"]
      [] sel = "article"             -> [NoSpec EXCEPT !.tag = "article"]
      [] sel = "a.product-link"      -> [NoSpec EXCEPT !.tag = "a", !.cls = "product-link"]
      [] sel = "a[href*='product']"  -> [NoSpec EXCEPT !.tag = "a", !.hrefSub = "product"]
      [] sel = "[class*='product']"  -> [NoSpec EXCEPT !.clsSub = "product"]
      [] sel = "[class*='price']"    -> [NoSpec EXCEPT !.clsSub = "price"]
      [] sel = "[itemprop='name']"   -> [NoSpec EXCEPT !.itemprop = "name"]
      [] sel = "[itemprop='price']"  -> [NoSpec EXCEPT !.itemprop = "price"]
      [] OTHER                       -> [NoSpec EXCEPT !.tag = "no-such-tag"]

\* A selector the CSS engine rejects with an exception.
InvalidSelectors == {"div["}

\* The hyphen-separated words of a class name or the path segments of an
\* href: sub is a substring of the name iff it is one of its words.
WordsOf(name) ==
    CASE name = "product-card"  -> {"product", "card"}
      [] name = "product-item"  -> {"product", "item"}
      [] name = "product-title" -> {"product", "title"}
      [] name = "product-price" -> {"product", "price"}
      [] name = "product-link"  -> {"product", "link"}
      [] name = "old-card"      -> {"old", "card"}
      [] name = "/product/1"    -> {"product", "1"}
      [] name = "/p/1"          -> {"p", "1"}
      [] OTHER                  -> {name}

NoHref == ""

\* Does the element meet the requirements of a simple selector?
MatchesSpec(node, spec) ==
    /\ spec.tag # "" => node.tag = spec.tag
    /\ spec.cls # "" => spec.cls \in node.classes
    /\ spec.clsSub # "" => \E c \in node.classes : spec.clsSub \in WordsOf(c)
    /\ spec.itemprop # "" => node.itemprop = spec.itemprop
    /\ spec.hrefSub # "" => node.href # NoHref /\ spec.hrefSub \in WordsOf(node.href)

\* Does the element match one simple selector?
MatchesSelector(node, sel) == MatchesSpec(node, SelectorSpec(sel))

\* Does the element match a selector list (comma-separated alternatives)?
MatchesAny(node, sels) == \E i \in 1..Len(sels) : MatchesSelector(node, sels[i])

\* node and its descendants in document order (pages are two levels deep).
Subtree(node) == <<node>> \o node.kids

RECURSIVE Flatten(_)
Flatten(nodes) ==
    IF nodes = <<>> THEN <<>> ELSE Subtree(Head(nodes)) \o Flatten(Tail(nodes))

\* HTMLParser.css(selector): every matching node of the document, in
\* document order.
Css(html, sels) ==
    SelectSeq(Flatten(html.nodes), LAMBDA n : MatchesAny(n, sels))

\* Node.css_first(selector): the first match among the node itself and its
\* descendants, or None.
CssFirst(nodes, sels) == First(SelectSeq(nodes, LAMBDA n : MatchesAny(n, sels)))

RECURSIVE ConcatText(_)
ConcatText(nodes) ==
    IF nodes = <<>> THEN <<>> ELSE Head(nodes).text \o ConcatText(Tail(nodes))

\* Node.text(): the text of the node and of its descendants.
NodeText(node) == ConcatText(Subtree(node))

(***************************************************************************)
(* scraper.py: _validate_selector, _get_first_text, _find_link,            *)
(* _parse_price, parse_products                                            *)
(***************************************************************************)

\* A call either returns a value or raises.
Return(v) == [raised |-> FALSE, value |-> v]
Raise(exc, why) == [raised |-> TRUE, exc |-> exc, why |-> why]

HasInvalid(sels) == \E i \in 1..Len(sels) : sels[i] \in InvalidSelectors

\* _validate_selector(parser, selector)
ValidateSelector(html, selector) ==
    IF HasInvalid(selector)
    THEN Raise("ScraperError", "InvalidSelector")
    ELSE Return(Css(html, selector))

\* target.text() of an optional target: the empty text when there is none.
TargetText(target) == IF target # None THEN NodeText(target[1]) ELSE <<>>

\* target.attributes.get("href") of an optional target.
TargetHref(target) == IF target # None THEN target[1].href ELSE NoHref

\* Mutant: the text is returned without strip().
TextOrNext_unstripped(text, next) == IF text # <<>> THEN Return(text) ELSE next

\* if target and target.text(): return target.text().strip(); otherwise the
\* loop goes on with the remaining alternatives.
TextOrNext(text, next) == IF text # <<>> THEN Return(Strip(text)) ELSE next

\* _get_first_text(node, selectors): the alternatives in order; the first
\* one whose target has a truthy text() returns that text stripped.
RECURSIVE GetFirstText(_, _)
GetFirstText(node, selectors) ==
    IF selectors = <<>> THEN Return(<<>>)
    ELSE IF Head(selectors) \in InvalidSelectors
         THEN Raise("ScraperError", "InvalidSelector")
    ELSE TextOrNext(TargetText(CssFirst(Subtree(node), <<Head(selectors)>>)),
                    GetFirstText(node, Tail(selectors)))

\* if href: return href; otherwise the loop goes on.
HrefOrNext(href, next) == IF href # NoHref THEN Return(href) ELSE next

\* _find_link(node, selectors): the href of the first alternative whose
\* target carries one.
RECURSIVE FindLink(_, _)
FindLink(node, selectors) ==
    IF selectors = <<>> THEN Return(NoHref)
    ELSE IF Head(selectors) \in InvalidSelectors
         THEN Raise("ScraperError", "InvalidSelector")
    ELSE HrefOrNext(TargetHref(CssFirst(Subtree(node), <<Head(selectors)>>)),
                    FindLink(node, Tail(selectors)))

\* "".join(ch for ch in text if ch.isdigit() or ch in ",.")
KeepPriceChars(text) == SelectSeq(text, LAMBDA ch : ch \in Digits \cup {",", "."})

\* Mutant: the commas are removed, as a thousands separator would be.
CommaToPeriod_removed(text) == SelectSeq(text, LAMBDA ch : ch # ",")

\* str.replace(",", ".")
CommaToPeriod(text) == [i \in 1..Len(text) |-> IF text[i] = "," THEN "." ELSE text[i]]

NormalizePrice(text) == CommaToPeriod(KeepPriceChars(text))

Periods(text) == {i \in 1..Len(text) : text[i] = "."}

\* float(normalized): digits with at most one period and at least one digit;
\* the value is kept as its integer digits and its fraction digits.
Float(normalized, dots) ==
    IF Cardinality(dots) > 1 \/ Cardinality(dots) = Len(normalized)
    THEN None
    ELSE IF dots = {}
         THEN Some([whole |-> normalized, frac |-> <<>>])
         ELSE Some([whole |-> SubSeq(normalized, 1, (CHOOSE i \in dots : TRUE) - 1),
                    frac  |-> SubSeq(normalized, (CHOOSE i \in dots : TRUE) + 1,
                                     Len(normalized))])

\* _parse_price(text)
ParsePrice(text) == Float(NormalizePrice(text), Periods(NormalizePrice(text)))

\* urljoin(base_url, link) for the links of the modelled pages, which are
\* paths: the path is resolved against the page's origin.
UrlJoin(base_url, link) == [origin |-> base_url.origin, path |-> link]

\* ParsedProduct(name=name, url=full_url, price=price_value,
\*               raw_price=price_text or None)
ParsedProduct(name, price_text, link, base_url) ==
    [name      |-> name,
     url       |-> IF link # NoHref THEN UrlJoin(base_url, link) ELSE base_url,
     price     |-> ParsePrice(price_text),
     raw_price |-> IF price_text # <<>> THEN Some(price_text) ELSE None]

\* One iteration of the loop of parse_products, given the outcomes of the
\* three lookups: an exception, no product (continue) or one product.
\* The price and the link are looked up only for a non-empty name.
NodeProducts(name, price_text, link, base_url) ==
    IF name.raised THEN name
    ELSE IF name.value = <<>> THEN Return(<<>>)
    ELSE IF price_text.raised THEN price_text
    ELSE IF link.raised THEN link
    ELSE Return(<<ParsedProduct(name.value, price_text.value, link.value, base_url)>>)

\* An exception in an iteration ends the loop; otherwise the products of the
\* iteration precede those of the later iterations.
ThenProducts(first, rest) ==
    IF first.raised THEN first
    ELSE IF rest.raised THEN rest
    ELSE Return(first.value \o rest.value)

\* The loop over the container nodes of parse_products.
RECURSIVE ParseNodes(_, _, _, _, _)
ParseNodes(nodes, base_url, name_selectors, price_selectors, url_selectors) ==
    IF nodes = <<>> THEN Return(<<>>)
    ELSE ThenProducts(
             NodeProducts(GetFirstText(Head(nodes), name_selectors),
                          GetFirstText(Head(nodes), price_selectors),
                          FindLink(Head(nodes), url_selectors),
                          base_url),
             ParseNodes(Tail(nodes), base_url,
                        name_selectors, price_selectors, url_selectors))

\* if not products: raise ScraperError(...); return products
ProductsOrError(products) ==
    IF products.raised THEN products
    ELSE IF products.value = <<>> THEN Raise("ScraperError", "EmptyResult")
    ELSE products

\* Mutant: the check for an empty node list is missing.
ParseContainers_unchecked(nodes, base_url, name_selectors, price_selectors, url_selectors) ==
    IF nodes.raised THEN nodes
    ELSE ProductsOrError(ParseNodes(nodes.value, base_url,
                                    name_selectors, price_selectors, url_selectors))

\* if not nodes: raise ScraperError(...), then the loop
ParseContainers(nodes, base_url, name_selectors, price_selectors, url_selectors) ==
    IF nodes.raised THEN nodes
    ELSE IF nodes.value = <<>> THEN Raise("ScraperError", "NoContainerMatch")
    ELSE ProductsOrError(ParseNodes(nodes.value, base_url,
                                    name_selectors, price_selectors, url_selectors))

parse_products(html, base_url, rules) ==
    ParseContainers(
        ValidateSelector(html, DictGetOr(rules, "product_item", DEFAULT_RULES.product_item)),
        base_url,
        DictGetOr(rules, "name_selector", DEFAULT_RULES.name_selector),
        DictGetOr(rules, "price_selector", DEFAULT_RULES.price_selector),
        DictGetOr(rules, "url_selector", DEFAULT_RULES.url_selector))

(***************************************************************************)
(* scraper.py: _looks_like_captcha                                         *)
(***************************************************************************)

\* str.lower(), character by character.
LowerChar(ch) ==
    CASE ch = "A" -> "a" [] ch = "C" -> "c" [] ch = "H" -> "h"
      [] ch = "P" -> "p" [] ch = "T" -> "t" [] ch = "Y" -> "y"
      [] ch = "F" -> "f" [] ch = "L" -> "l" [] ch = "R" -> "r"
      [] OTHER -> ch

Lower(text) == [i \in 1..Len(text) |-> LowerChar(text[i])]

\* marker in text
Contains(text, marker) ==
    \E i \in 1..(Len(text) - Len(marker) + 1) :
        SubSeq(text, i, i + Len(marker) - 1) = marker

Markers ==
    { <<"c", "a", "p", "t", "c", "h", "a">>,
      <<"c", "l", "o", "u", "d", "f", "l", "a", "r", "e">>,
      <<"a", "r", "e", " ", "y", "o", "u", " ", "h", "u", "m", "a", "n">> }

\* Mutant: the markers are looked up in the text as it is.
looks_like_captcha_case_sensitive(text) ==
    \E marker \in Markers : Contains(text, marker)

looks_like_captcha(text) ==
    LET lowered == Lower(text) IN \E marker \in Markers : Contains(lowered, marker)

(***************************************************************************)
(* rule_detector_ai.py: _heuristic_rules, _request_ai_rules, fix_rules     *)
(***************************************************************************)

\* len(nodes) > 3
MinItemCount == 3

HasDigit(text) == \E i \in 1..Len(text) : text[i] \in Digits

\* The selector found by a loop of _heuristic_rules, or else
\* (previous_rules or {}).get(key, DEFAULT_RULES[key])
FoundOrPrevious(found, previous_rules, key) ==
    IF found # None THEN found ELSE DictGet(previous_rules, key, DEFAULT_RULES[key])

\* node and any(ch.isdigit() for ch in node.text())
PriceLike(node) == node # None /\ HasDigit(NodeText(node[1]))

\* node and node.attributes.get("href")
LinkLike(node) == node # None /\ node[1].href # NoHref

heuristic_rules(html, previous_rules) ==
    [product_item   |->
        FoundOrPrevious(
            First(SelectSeq(<<".product", ".product-card", "[class*='product']", "article">>,
                            LAMBDA sel : Len(Css(html, <<sel>>)) > MinItemCount)),
            previous_rules, "product_item"),
     name_selector  |->
        FoundOrPrevious(
            First(SelectSeq(<<"h2", "h3", "[itemprop='name']">>,
                            LAMBDA sel : CssFirst(Flatten(html.nodes), <<sel>>) # None)),
            previous_rules, "name_selector"),
     price_selector |->
        FoundOrPrevious(
            First(SelectSeq(<<".price", "[itemprop='price']", "[class*='price']">>,
                            LAMBDA sel : PriceLike(CssFirst(Flatten(html.nodes), <<sel>>)))),
            previous_rules, "price_selector"),
     url_selector   |->
        FoundOrPrevious(
            First(SelectSeq(<<"a.product-link", "a[href*='product']", "a">>,
                            LAMBDA sel : LinkLike(CssFirst(Flatten(html.nodes), <<sel>>)))),
            previous_rules, "url_selector"),
     category_link  |-> DictGet(previous_rules, "category_link",
                                DEFAULT_RULES.category_link)]

\* What the oracle side does in one call of _request_ai_rules:
\*   client   FALSE when get_openai_client() raises (no API key)
\*   call     FALSE when chat.completions.create raises
\*   json     FALSE when the content is not valid JSON (or is None)
\*   type     the type of the JSON value
\*   members  the members of a JSON object
OracleOutcome(client, call, json, type, members) ==
    [client |-> client, call |-> call, json |-> json, type |-> type, members |-> members]

\* json.loads(response)
JsonLoads(outcome) ==
    IF outcome.json THEN Return(outcome) ELSE Raise("JSONDecodeError", "InvalidOracleResponse")

\* parsed.items()
Items(parsed) ==
    IF parsed.raised THEN parsed
    ELSE IF parsed.value.type = "object" THEN Return(parsed.value.members)
    ELSE Raise("AttributeError", "InvalidOracleResponse")

\* Mutant: the members of the answer are merged without the restriction to
\* the known keys.
CleanedRules_unrestricted(items) ==
    IF items.raised THEN items
    ELSE Return(DictMerge(DEFAULT_RULES, items.value))

\* cleaned = {key: str(value) for key, value in parsed.items() if key in DEFAULT_RULES}
\* return {**DEFAULT_RULES, **cleaned}
CleanedRules(items) ==
    IF items.raised THEN items
    ELSE Return(DictMerge(DEFAULT_RULES, DictRestrict(items.value, Fields)))

\* The body of the second try block of _request_ai_rules: the oracle call,
\* json.loads, the restriction to the known keys and the merge over the
\* defaults.
OracleRules(outcome) ==
    IF ~outcome.call THEN Raise("APIError", "OracleCallFailed")
    ELSE CleanedRules(Items(JsonLoads(outcome)))

\* Mutant: except json.JSONDecodeError.
CaughtByRequestAiRules_json_only(exc) == exc = "JSONDecodeError"

\* except Exception: every exception of the try block is caught.
CaughtByRequestAiRules(exc) == TRUE

\* The except clause of the second try block: the heuristic rules replace a
\* caught exception.
SuggestedOrHeuristic(suggested, html, old_rules) ==
    IF suggested.raised /\ CaughtByRequestAiRules(suggested.exc)
    THEN Return(heuristic_rules(html, old_rules))
    ELSE suggested

request_ai_rules(html, old_rules, outcome) ==
    IF ~outcome.client THEN Return(heuristic_rules(html, old_rules))
    ELSE SuggestedOrHeuristic(OracleRules(outcome), html, old_rules)

fix_rules(html, old_rules, outcome) == request_ai_rules(html, old_rules, outcome)

\* generate_rules(url), given what its fetch_html call does: an exception of
\* fetch_html leaves generate_rules, otherwise the page goes to
\* _request_ai_rules with old_rules None, read as {} by (previous_rules or {}).
generate_rules(fetched, outcome) ==
    IF fetched.raised THEN fetched ELSE request_ai_rules(fetched.value, << >>, outcome)

(***************************************************************************)
(* The pages a shop serves: an optional page heading followed by product   *)
(* cards.  Every card holds a name element, a price element and a link.    *)
(***************************************************************************)

Element(tag, classes, text, href, kids) ==
    [tag |-> tag, classes |-> classes, itemprop |-> "", text |-> text,
     href |-> href, kids |-> kids]

NameStates == {"named", "empty", "blank"}

Letters == <<"A", "B", "C", "D", "E", "F">>

NameText(i, state) ==
    CASE state = "named" -> <<" ", Letters[i], " ">>
      [] state = "blank" -> <<" ">>
      [] OTHER           -> <<>>

NameElement(kind, text) ==
    CASE kind = "h2"    -> Element("h2", {}, text, NoHref, <<>>)
      [] kind = "title" -> Element("span", {"title"}, text, NoHref, <<>>)
      [] OTHER          -> Element("span", {"product-title"}, text, NoHref, <<>>)

PriceElement == Element("span", {"price"}, <<"1", " ", "2", "9", "9", ",", "0">>, NoHref, <<>>)

LinkElement == Element("a", {}, <<>>, "/product/1", <<>>)

Card(template, i, state) ==
    Element("div", {template.cls}, <<>>, NoHref,
            <<NameElement(template.name, NameText(i, state)), PriceElement, LinkElement>>)

Heading == Element("h2", {}, <<"S">>, NoHref, <<>>)

Templates ==
    [cls : {"product-card", "item"}, name : {"h2", "title", "product-title"},
     heading : BOOLEAN]

MakePage(template, states) ==
    [note  |-> <<>>,
     nodes |-> (IF template.heading THEN <<Heading>> ELSE <<>>)
               \o [i \in 1..Len(states) |-> Card(template, i, states[i])]]

NameStateSeqs == UNION {[1..n -> NameStates] : n \in 0..MaxItems}

Pages == {MakePage(t, states) : t \in Templates, states \in NameStateSeqs}

\* Pages whose cards are all in the same state.
UniformPages ==
    {MakePage(t, [i \in 1..n |-> st]) : t \in Templates, n \in 0..MaxItems, st \in NameStates}

EmptyBody == [note |-> <<>>, nodes |-> <<>>]

SamplePage == MakePage([cls |-> "product-card", name |-> "h2", heading |-> FALSE], <<"named">>)

\* Texts a response may carry besides its markup.
Notes ==
    { <<>>,
      <<"c", "a", "p", "t">>,
      <<"C", "A", "P", "T", "C", "H", "A">>,
      <<"x", "c", "a", "p", "t", "c", "h", "a", "x">>,
      <<"C", "l", "o", "u", "d", "f", "l", "a", "r", "e">>,
      <<"A", "r", "e", " ", "Y", "o", "u", " ", "H", "u", "m", "a", "n">> }

Statuses == {200, 403, 404, 429, 500, 503}

\* What one client.get(url) can give: a response, or an exception such as a
\* timeout.
Response(status, body) == [kind |-> "response", status |-> status, body |-> body]
TimeoutResponse == [kind |-> "exception", status |-> 0, body |-> EmptyBody]

AllResponses ==
    {TimeoutResponse}
    \cup {Response(st, [SamplePage EXCEPT !.note = n]) : st \in Statuses, n \in Notes}

FlowResponses ==
    {TimeoutResponse, Response(403, SamplePage)}
    \cup {Response(200, p) : p \in UniformPages}

(***************************************************************************)
(* Inputs                                                                  *)
(***************************************************************************)

category_url == [origin |-> "https://shop.example", path |-> "/catalog"]

RuleSets ==
    { DEFAULT_RULES,
      << >>,
      [DEFAULT_RULES EXCEPT !.product_item = <<".old-card">>],
      [DEFAULT_RULES EXCEPT !.name_selector = <<"div[", "h2">>],
      [product_item |-> <<".item">>, name_selector |-> << >>],
      [product_item   |-> <<".item">>,
       name_selector  |-> <<".title">>,
       price_selector |-> <<".price">>,
       url_selector   |-> <<"a">>,
       category_link  |-> DEFAULT_RULES.category_link],
      [product_item   |-> <<".product-card">>,
       name_selector  |-> <<"h2">>,
       price_selector |-> <<".price">>,
       url_selector   |-> <<"a[href*='product']">>,
       category_link  |-> DEFAULT_RULES.category_link] }

OracleOutcomes ==
    { OracleOutcome(FALSE, FALSE, FALSE, "none", << >>),
      OracleOutcome(TRUE, FALSE, FALSE, "none", << >>),
      OracleOutcome(TRUE, TRUE, FALSE, "none", << >>),
      OracleOutcome(TRUE, TRUE, TRUE, "array", << >>),
      OracleOutcome(TRUE, TRUE, TRUE, "object", << >>),
      OracleOutcome(TRUE, TRUE, TRUE, "object", [selector |-> <<".item">>]),
      OracleOutcome(TRUE, TRUE, TRUE, "object",
                    [product_item |-> <<".item">>, name_selector |-> <<".title">>]),
      OracleOutcome(TRUE, TRUE, TRUE, "object",
                    [product_item |-> <<".product-card">>, comment |-> <<"ok">>]) }

Ops == {"scrape_products_with_self_heal", "fetch_html", "parse_products"}

(***************************************************************************)
(* State                                                                   *)
(***************************************************************************)

VARIABLES
    op,          \* the operation that was called
    pc,          \* where the call is
    rules,       \* the RuleSet passed in
    has_save,    \* whether a save_rules callback was passed
    attempt,     \* fetch_html: iterations of the request loop so far
    last_error,  \* fetch_html: last_error
    responses,   \* fetch_html: the responses of this call, in order
    html,        \* the markup in scope
    first_error, \* try_scrape: the ScraperError caught by the except clause
    oracle,      \* the oracle outcome met by fix_rules
    new_rules,   \* try_scrape: new_rules
    parsed,      \* the latest parse_products call on the markup in scope:
                 \* its arguments and its outcome
    returned,    \* what try_scrape returned: items and rules
    saved,       \* the arguments of the save_rules calls, in order
    result,      \* the outcome of the operation
    nFetch,      \* number of fetch_html calls
    nParse,      \* number of parse_products calls
    nRepair      \* number of fix_rules calls

\* scrape_multiple_categories
VARIABLES
    category_urls, \* the URLs passed in
    shared_rules,  \* the RuleSet passed in, used by every task
    tasks,         \* the _scrape coroutines, one per URL, in task order
    gathered       \* what scrape_multiple_categories returned

\* Concurrent scrape_products_with_self_heal cycles for one target
VARIABLES
    cycles,        \* the cycles, each with the RuleSet it read before it began
    persisted,     \* the stored RuleSet
    writers        \* the cycles that called save_rules, in call order

\* Calls of the matching and grouping functions
VARIABLES
    called,        \* the function called and its arguments
    ret            \* its return value

\* parserai.core: successive self_heal_algorithm repairs
VARIABLES
    algo,          \* the stored ParsingAlgorithm: selectors and meta
    heals,         \* number of repairs so far
    healed_from    \* the latest repair: its page and the algorithm it was given

\* parserai.core: SimpleHTMLParser and select_first
VARIABLES
    parser,        \* the nodes created so far and the current node
    open_tags,     \* the elements of the markup fed so far that are still open,
                   \* or None once an end tag closed no element
    selected       \* the latest select_first call: its selector and its result

flowVars == <<op, pc, rules, has_save, attempt, last_error, responses, html,
              first_error, oracle, new_rules, parsed, returned, saved, result,
              nFetch, nParse, nRepair>>
categoryVars == <<category_urls, shared_rules, tasks, gathered>>
cycleVars == <<cycles, persisted, writers>>
callVars == <<called, ret>>
healVars == <<algo, heals, healed_from>>
parserVars == <<parser, open_tags, selected>>

vars == <<flowVars, categoryVars, cycleVars, callVars, healVars, parserVars>>

\* The variables of the operations that are not running.
FlowIdle ==
    /\ op = "none" /\ pc = "done" /\ rules = DEFAULT_RULES /\ has_save = FALSE
    /\ attempt = 0 /\ last_error = None /\ responses = << >> /\ html = None
    /\ first_error = None /\ oracle = None /\ new_rules = None /\ parsed = None
    /\ returned = None /\ saved = << >> /\ result = None
    /\ nFetch = 0 /\ nParse = 0 /\ nRepair = 0
CategoriesIdle ==
    category_urls = << >> /\ shared_rules = DEFAULT_RULES /\ tasks = << >> /\ gathered = None
CyclesIdle == cycles = << >> /\ persisted = None /\ writers = << >>
CallsIdle == called = None /\ ret = None
HealIdle == algo = None /\ heals = 0 /\ healed_from = None
ParserIdle == parser = None /\ open_tags = << >> /\ selected = None

Init ==
    /\ op \in Ops
    /\ rules \in (IF op = "fetch_html" THEN {DEFAULT_RULES} ELSE RuleSets)
    /\ has_save \in (IF op = "scrape_products_with_self_heal" THEN BOOLEAN ELSE {FALSE})
    /\ html \in (IF op = "parse_products" THEN {Some(p) : p \in Pages} ELSE {None})
    /\ pc = (IF op = "parse_products" THEN "parse" ELSE "fetch1")
    /\ nFetch = (IF op = "parse_products" THEN 0 ELSE 1)
    /\ attempt = 0
    /\ last_error = None
    /\ responses = << >>
    /\ first_error = None
    /\ oracle = None
    /\ new_rules = None
    /\ parsed = None
    /\ returned = None
    /\ saved = << >>
    /\ result = None
    /\ nParse = 0
    /\ nRepair = 0
    /\ CategoriesIdle /\ CyclesIdle /\ CallsIdle /\ HealIdle /\ ParserIdle

(***************************************************************************)
(* scraper.py: fetch_html, one iteration of the request loop               *)
(***************************************************************************)

BlockedStatuses == {403, 429, 503}

\* response.raise_for_status()
RaisesForStatus(status) == status >= 400

\* The body of the loop for one response: the error it leaves in last_error,
\* or None when the text is returned.
FetchError(response) ==
    IF response.kind = "exception" THEN Some("TimeoutException")
    ELSE IF response.status \in BlockedStatuses THEN Some("FetchBlocked")
    ELSE IF looks_like_captcha(response.body.note) THEN Some("FetchBlocked")
    ELSE IF RaisesForStatus(response.status) THEN Some("HTTPStatusError")
    ELSE None

\* The responses client.get(url) is given in the modelled runs.
ResponsesOf(operation) == IF operation = "fetch_html" THEN AllResponses ELSE FlowResponses

Request ==
    /\ pc \in {"fetch1", "fetch2"}
    /\ attempt < MaxAttempts
    /\ \E response \in ResponsesOf(op) :
         /\ responses' = Append(responses, response)
         /\ last_error' = FetchError(response)
    /\ attempt' = attempt + 1
    /\ IF last_error' = None
       THEN /\ html' = Some(responses'[attempt'].body)
            /\ pc' = (IF pc = "fetch1" THEN "fetched1" ELSE "fetched2")
       ELSE /\ html' = None
            /\ pc' = (IF attempt' < MaxAttempts THEN pc
                      ELSE IF pc = "fetch1" THEN "failed1" ELSE "failed2")
    /\ parsed' = None
    /\ UNCHANGED <<categoryVars, cycleVars, callVars, healVars, parserVars>>
    /\ UNCHANGED <<op, rules, has_save, first_error, oracle, new_rules,
                   returned, saved, result, nFetch, nParse, nRepair>>

\* raise ScraperError(str(last_error)) after the loop
FetchFailure == Raise("ScraperError", last_error[1])

\* fetch_html called on its own: the call returns the text or raises.
FetchReturn ==
    /\ op = "fetch_html"
    /\ pc \in {"fetched1", "failed1"}
    /\ result' = Some(IF pc = "fetched1" THEN Return(html[1]) ELSE FetchFailure)
    /\ pc' = "done"
    /\ UNCHANGED <<categoryVars, cycleVars, callVars, healVars, parserVars>>
    /\ UNCHANGED <<op, rules, has_save, attempt, last_error, responses, html,
                   first_error, oracle, new_rules, parsed, returned, saved,
                   nFetch, nParse, nRepair>>

\* The record of one parse_products call.
ParseRecord(page, used_rules) ==
    [html |-> page, rules |-> used_rules,
     out |-> parse_products(page, category_url, used_rules)]

\* parse_products called on its own.
ParseCall ==
    /\ op = "parse_products"
    /\ pc = "parse"
    /\ parsed' = Some(ParseRecord(html[1], rules))
    /\ result' = Some(parsed'[1].out)
    /\ nParse' = nParse + 1
    /\ pc' = "done"
    /\ UNCHANGED <<categoryVars, cycleVars, callVars, healVars, parserVars>>
    /\ UNCHANGED <<op, rules, has_save, attempt, last_error, responses, html,
                   first_error, oracle, new_rules, returned, saved,
                   nFetch, nRepair>>

(***************************************************************************)
(* self_heal.py: try_scrape                                                *)
(* fallback_logic.py: scrape_products_with_self_heal                       *)
(***************************************************************************)

InFlow == op = "scrape_products_with_self_heal"

\* except ScraperError
CaughtByTryScrape(exc) == exc = "ScraperError"

\* Mutant: the rules passed in are returned after a repair too.
TryScrapeReturn_stale(items, used_rules) == [items |-> items, rules |-> rules]

\* return items, rules
TryScrapeReturn(items, used_rules) == [items |-> items, rules |-> used_rules]

\* scrape_products, after its fetch_html returned: parse_products with the
\* rules passed in; try_scrape returns the items or catches the ScraperError
\* and calls fetch_html again.
Extract ==
    /\ InFlow
    /\ pc = "fetched1"
    /\ parsed' = Some(ParseRecord(html[1], rules))
    /\ IF ~parsed'[1].out.raised
       THEN /\ returned' = Some(TryScrapeReturn(parsed'[1].out.value, rules))
            /\ pc' = "finish"
            /\ UNCHANGED <<first_error, result, nFetch>>
       ELSE IF CaughtByTryScrape(parsed'[1].out.exc)
       THEN /\ first_error' = Some(parsed'[1].out)
            /\ pc' = "fetch2"
            /\ nFetch' = nFetch + 1
            /\ UNCHANGED <<returned, result>>
       ELSE /\ result' = Some(parsed'[1].out)
            /\ pc' = "done"
            /\ UNCHANGED <<first_error, returned, nFetch>>
    /\ nParse' = nParse + 1
    /\ attempt' = 0
    /\ last_error' = None
    /\ responses' = << >>
    /\ UNCHANGED <<categoryVars, cycleVars, callVars, healVars, parserVars>>
    /\ UNCHANGED <<op, rules, has_save, html, oracle, new_rules, saved, nRepair>>

\* The fetch_html of scrape_products raised: the except clause of try_scrape
\* catches the ScraperError and calls fetch_html again.
CatchFetchError ==
    /\ InFlow
    /\ pc = "failed1"
    /\ IF CaughtByTryScrape(FetchFailure.exc)
       THEN /\ first_error' = Some(FetchFailure)
            /\ pc' = "fetch2"
            /\ nFetch' = nFetch + 1
            /\ UNCHANGED result
       ELSE /\ result' = Some(FetchFailure)
            /\ pc' = "done"
            /\ UNCHANGED <<first_error, nFetch>>
    /\ attempt' = 0
    /\ last_error' = None
    /\ responses' = << >>
    /\ UNCHANGED <<categoryVars, cycleVars, callVars, healVars, parserVars>>
    /\ UNCHANGED <<op, rules, has_save, html, oracle, new_rules, parsed,
                   returned, saved, nParse, nRepair>>

\* The fetch_html of the except clause raised: the error leaves try_scrape.
PropagateFetchError ==
    /\ InFlow
    /\ pc = "failed2"
    /\ result' = Some(FetchFailure)
    /\ pc' = "done"
    /\ UNCHANGED <<categoryVars, cycleVars, callVars, healVars, parserVars>>
    /\ UNCHANGED <<op, rules, has_save, attempt, last_error, responses, html,
                   first_error, oracle, new_rules, parsed, returned, saved,
                   nFetch, nParse, nRepair>>

\* new_rules = rule_detector_ai.fix_rules(html, rules); an exception of
\* fix_rules would leave try_scrape.
Repair ==
    /\ InFlow
    /\ pc = "fetched2"
    /\ oracle' \in {Some(outcome) : outcome \in OracleOutcomes}
    /\ \E fixed \in {fix_rules(html[1], rules, oracle'[1])} :
         IF fixed.raised
         THEN /\ result' = Some(fixed)
              /\ pc' = "done"
              /\ UNCHANGED new_rules
         ELSE /\ new_rules' = Some(fixed.value)
              /\ pc' = "retry"
              /\ UNCHANGED result
    /\ nRepair' = nRepair + 1
    /\ attempt' = 0
    /\ last_error' = None
    /\ responses' = << >>
    /\ UNCHANGED <<categoryVars, cycleVars, callVars, healVars, parserVars>>
    /\ UNCHANGED <<op, rules, has_save, html, first_error, parsed, returned,
                   saved, nFetch, nParse>>

\* Mutant: a failed retry goes back to the repair step.
Retry_repairs_again ==
    /\ InFlow
    /\ pc = "retry"
    /\ parsed' = Some(ParseRecord(html[1], new_rules[1]))
    /\ IF parsed'[1].out.raised
       THEN /\ pc' = "fetched2"
            /\ UNCHANGED <<returned, result>>
       ELSE /\ returned' = Some(TryScrapeReturn(parsed'[1].out.value, new_rules[1]))
            /\ pc' = "finish"
            /\ UNCHANGED result
    /\ nParse' = nParse + 1
    /\ UNCHANGED <<categoryVars, cycleVars, callVars, healVars, parserVars>>
    /\ UNCHANGED <<op, rules, has_save, attempt, last_error, responses, html,
                   first_error, oracle, new_rules, saved, nFetch, nRepair>>

\* fixed_items = parse_products(html, category_url, new_rules)
\* return fixed_items, new_rules
Retry ==
    /\ InFlow
    /\ pc = "retry"
    /\ parsed' = Some(ParseRecord(html[1], new_rules[1]))
    /\ IF parsed'[1].out.raised
       THEN /\ result' = Some(parsed'[1].out)
            /\ pc' = "done"
            /\ UNCHANGED returned
       ELSE /\ returned' = Some(TryScrapeReturn(parsed'[1].out.value, new_rules[1]))
            /\ pc' = "finish"
            /\ UNCHANGED result
    /\ nParse' = nParse + 1
    /\ UNCHANGED <<categoryVars, cycleVars, callVars, healVars, parserVars>>
    /\ UNCHANGED <<op, rules, has_save, attempt, last_error, responses, html,
                   first_error, oracle, new_rules, saved, nFetch, nRepair>>

\* Mutant: the callback is invoked whenever it was supplied.
ShouldSave_always(supplied, updated_rules, given_rules) == supplied

\* if save_rules and updated_rules != rules
ShouldSave(supplied, updated_rules, given_rules) ==
    supplied /\ updated_rules # given_rules

\* {**DEFAULT_RULES, **updated_rules}
SavedRules(updated_rules) == DictMerge(DEFAULT_RULES, updated_rules)

\* scrape_products_with_self_heal after try_scrape returned.
Finish ==
    /\ InFlow
    /\ pc = "finish"
    /\ saved' = (IF ShouldSave(has_save, returned[1].rules, rules)
                 THEN Append(saved, SavedRules(returned[1].rules))
                 ELSE saved)
    /\ result' = Some(Return(returned[1]))
    /\ pc' = "done"
    /\ UNCHANGED <<categoryVars, cycleVars, callVars, healVars, parserVars>>
    /\ UNCHANGED <<op, rules, has_save, attempt, last_error, responses, html,
                   first_error, oracle, new_rules, parsed, returned,
                   nFetch, nParse, nRepair>>

Next ==
    \/ Request
    \/ FetchReturn
    \/ ParseCall
    \/ Extract
    \/ CatchFetchError
    \/ PropagateFetchError
    \/ Repair
    \/ Retry
    \/ Finish

Spec == Init /\ [][Next]_vars

TypeOK ==
    /\ op \in Ops
    /\ attempt \in 0..MaxAttempts
    /\ Len(responses) = attempt

(***************************************************************************)
(* scraper.py: scrape_multiple_categories                                  *)
(*                                                                         *)
(* asyncio.gather runs one _scrape coroutine per URL.  A coroutine gives   *)
(* way to the others only where it awaits: at client.get and when the      *)
(* client is closed as fetch_html returns or raises.  One action is the    *)
(* code a coroutine runs between two such points.                          *)
(***************************************************************************)

\* Largest number of URLs passed to scrape_multiple_categories.
MaxCategories == 3

CategoryUrl(i) == [origin |-> "https://shop.example", path |-> "/catalog/" \o ToString(i)]

\* The lists of URLs passed in: distinct URLs, and lists whose last URL
\* repeats the first.
UrlLists ==
    {[i \in 1..n |-> CategoryUrl(i)] : n \in 0..MaxCategories}
    \cup {[i \in 1..n |-> CategoryUrl(IF i = n THEN 1 ELSE i)] : n \in 2..MaxCategories}

CategoryRuleSets == {DEFAULT_RULES, [DEFAULT_RULES EXCEPT !.product_item = <<".old-card">>]}

TwoCardPage ==
    MakePage([cls |-> "product-card", name |-> "h2", heading |-> FALSE], <<"named", "named">>)

BlankCardPage ==
    MakePage([cls |-> "product-card", name |-> "h2", heading |-> FALSE], <<"blank">>)

\* What client.get gives the tasks in the modelled runs.
CategoryResponses ==
    {Response(403, SamplePage), TimeoutResponse, Response(200, SamplePage),
     Response(200, TwoCardPage), Response(200, BlankCardPage)}

\* A _scrape coroutine that has not run yet.
NewTask(url) ==
    [url |-> url, pc |-> "fetch", attempt |-> 0, last_error |-> None,
     html |-> None, outcome |-> None]

InitCategories ==
    /\ category_urls \in UrlLists
    /\ shared_rules \in CategoryRuleSets
    /\ tasks = [i \in 1..Len(category_urls) |-> NewTask(category_urls[i])]
    /\ gathered = None
    /\ FlowIdle /\ CyclesIdle /\ CallsIdle /\ HealIdle /\ ParserIdle

\* The task after one iteration of the request loop of fetch_html.
AfterRequest(task, error, body) ==
    [task EXCEPT
       !.attempt = task.attempt + 1,
       !.last_error = error,
       !.html = IF error = None THEN Some(body) ELSE None,
       !.pc = IF error = None THEN "fetched"
              ELSE IF task.attempt + 1 < MaxAttempts THEN "fetch"
              ELSE "failed"]

\* fetch_html inside scrape_products inside _scrape: one client.get.
TaskRequest ==
    /\ \E i \in 1..Len(tasks), response \in CategoryResponses :
         /\ tasks[i].pc = "fetch"
         /\ tasks[i].attempt < MaxAttempts
         /\ tasks' = [tasks EXCEPT ![i] =
                        AfterRequest(tasks[i], FetchError(response), response.body)]
    /\ UNCHANGED <<category_urls, shared_rules, gathered>>
    /\ UNCHANGED <<flowVars, cycleVars, callVars, healVars, parserVars>>

\* Mutant: _scrape catches nothing.
CaughtByScrape_nothing(exc) == FALSE

\* except ScraperError
CaughtByScrape(exc) == exc = "ScraperError"

\* What _scrape does with the outcome of scrape_products: return url, items
\* or, for a caught exception, return url, []; any other exception leaves
\* the coroutine.
ScrapeOutcome(url, scraped) ==
    IF ~scraped.raised THEN Return(<<url, scraped.value>>)
    ELSE IF CaughtByScrape(scraped.exc) THEN Return(<<url, << >> >>)
    ELSE scraped

\* The task once _scrape has returned or raised.
Finished(task, scraped) ==
    [task EXCEPT !.pc = "done", !.outcome = Some(ScrapeOutcome(task.url, scraped))]

\* scrape_products after fetch_html returned: parse_products, then the
\* return or the except clause of _scrape.
TaskExtract ==
    /\ \E i \in 1..Len(tasks) :
         /\ tasks[i].pc = "fetched"
         /\ tasks' = [tasks EXCEPT ![i] =
                        Finished(tasks[i],
                                 parse_products(tasks[i].html[1], tasks[i].url, shared_rules))]
    /\ UNCHANGED <<category_urls, shared_rules, gathered>>
    /\ UNCHANGED <<flowVars, cycleVars, callVars, healVars, parserVars>>

\* fetch_html raised ScraperError(str(last_error)): the except clause of
\* _scrape.
TaskFetchFailed ==
    /\ \E i \in 1..Len(tasks) :
         /\ tasks[i].pc = "failed"
         /\ tasks' = [tasks EXCEPT ![i] =
                        Finished(tasks[i], Raise("ScraperError", tasks[i].last_error[1]))]
    /\ UNCHANGED <<category_urls, shared_rules, gathered>>
    /\ UNCHANGED <<flowVars, cycleVars, callVars, healVars, parserVars>>

\* {url: items for url, items in results}: a later pair replaces an earlier
\* pair with the same url.
LastIndexOf(results, url) ==
    CHOOSE i \in 1..Len(results) :
        /\ results[i][1] = url
        /\ \A j \in (i + 1)..Len(results) : results[j][1] # url

ResultDict(results) ==
    [url \in {results[i][1] : i \in 1..Len(results)} |->
        results[LastIndexOf(results, url)][2]]

\* The tasks whose exception left the coroutine.
Escaped(ts) == {i \in 1..Len(ts) : ts[i].outcome # None /\ ts[i].outcome[1].raised}

\* results = await asyncio.gather(*tasks): the results in task order once
\* every task has returned, or the first exception that left a task.
Gather ==
    /\ gathered = None
    /\ \/ /\ Escaped(tasks) # {}
          /\ \E i \in Escaped(tasks) : gathered' = Some(tasks[i].outcome[1])
       \/ /\ Escaped(tasks) = {}
          /\ \A i \in 1..Len(tasks) : tasks[i].pc = "done"
          /\ gathered' = Some(Return(ResultDict(
                 [i \in 1..Len(tasks) |-> tasks[i].outcome[1].value])))
    /\ UNCHANGED <<category_urls, shared_rules, tasks>>
    /\ UNCHANGED <<flowVars, cycleVars, callVars, healVars, parserVars>>

NextCategories ==
    \/ TaskRequest
    \/ TaskExtract
    \/ TaskFetchFailed
    \/ Gather

SpecCategories == InitCategories /\ [][NextCategories]_vars

(***************************************************************************)
(* Concurrent cycles for one target.  A cycle reads the stored RuleSet     *)
(* (main.py, load_competitor_rules), runs scrape_products_with_self_heal   *)
(* with a save_rules callback that writes the store (main.py,              *)
(* save_json_file), and awaits only inside fetch_html: everything between  *)
(* two fetches, and everything after the last one, runs without giving     *)
(* way to another cycle.                                                   *)
(***************************************************************************)

\* Number of cycles that run concurrently.
MaxCycles == 2

ItemPage ==
    MakePage([cls |-> "item", name |-> "title", heading |-> FALSE], <<"named">>)

CycleResponses ==
    {Response(403, SamplePage), Response(200, SamplePage), Response(200, ItemPage)}

\* What the store holds before the cycles.
StoredRuleSets ==
    { DEFAULT_RULES,
      [DEFAULT_RULES EXCEPT !.product_item = <<".old-card">>],
      [product_item |-> <<".old-card">>, name_selector |-> <<".title">>] }

CycleOracleOutcomes ==
    { OracleOutcome(FALSE, FALSE, FALSE, "none", << >>),
      OracleOutcome(TRUE, TRUE, TRUE, "object",
                    [product_item |-> <<".item">>, name_selector |-> <<".title">>]),
      OracleOutcome(TRUE, TRUE, TRUE, "object",
                    [product_item |-> <<".product-card">>, comment |-> <<"ok">>]) }

NewCycle ==
    [pc |-> "idle", rules |-> None, attempt |-> 0, last_error |-> None,
     html |-> None, returned |-> None, result |-> None]

InitCycles ==
    /\ cycles = [i \in 1..MaxCycles |-> NewCycle]
    /\ persisted \in {Some(r) : r \in StoredRuleSets}
    /\ writers = << >>
    /\ FlowIdle /\ CategoriesIdle /\ CallsIdle /\ HealIdle /\ ParserIdle

\* load_json_file(get_rules_path(competitor_id), DEFAULT_RULES) of an
\* existing file, then the call of scrape_products_with_self_heal.
CycleBegin ==
    /\ \E i \in 1..Len(cycles) :
         /\ cycles[i].pc = "idle"
         /\ cycles' = [cycles EXCEPT ![i] =
                         [cycles[i] EXCEPT !.pc = "fetch1", !.rules = persisted]]
    /\ UNCHANGED <<persisted, writers>>
    /\ UNCHANGED <<flowVars, categoryVars, callVars, healVars, parserVars>>

\* The cycle after one iteration of the request loop of fetch_html.
CycleAfterRequest(cycle, error, body) ==
    [cycle EXCEPT
       !.attempt = IF error # None /\ cycle.attempt + 1 < MaxAttempts
                   THEN cycle.attempt + 1 ELSE 0,
       !.last_error = error,
       !.html = IF error = None THEN Some(body) ELSE None,
       !.pc = IF error = None
              THEN (IF cycle.pc = "fetch1" THEN "fetched1" ELSE "fetched2")
              ELSE IF cycle.attempt + 1 < MaxAttempts THEN cycle.pc
              ELSE IF cycle.pc = "fetch1" THEN "failed1" ELSE "failed2"]

\* One client.get of a fetch_html of the cycle.
CycleRequest ==
    /\ \E i \in 1..Len(cycles), response \in CycleResponses :
         /\ cycles[i].pc \in {"fetch1", "fetch2"}
         /\ cycles[i].attempt < MaxAttempts
         /\ cycles' = [cycles EXCEPT ![i] =
                         CycleAfterRequest(cycles[i], FetchError(response), response.body)]
    /\ UNCHANGED <<persisted, writers>>
    /\ UNCHANGED <<flowVars, categoryVars, callVars, healVars, parserVars>>

\* Mutant: the callback merges the fields that differ from the defaults
\* into the stored RuleSet.
Persist_merge(store, payload) ==
    [f \in DOMAIN payload |->
        IF payload[f] = DEFAULT_RULES[f] /\ f \in DOMAIN store THEN store[f]
        ELSE payload[f]]

\* save_json_file(path, payload): the file is opened for writing and holds
\* the payload afterwards.
Persist(store, payload) == payload

\* scrape_products_with_self_heal once try_scrape has returned or raised:
\* the cycle, the store and the writers afterwards.
CycleEnd(i, cycle, outcome, used_rules) ==
    IF outcome.raised
    THEN /\ cycles' = [cycles EXCEPT ![i] =
                         [cycle EXCEPT !.pc = "done", !.result = Some(outcome)]]
         /\ UNCHANGED <<persisted, writers>>
    ELSE /\ cycles' = [cycles EXCEPT ![i] =
                         [cycle EXCEPT
                            !.pc = "done",
                            !.returned = Some(TryScrapeReturn(outcome.value, used_rules)),
                            !.result = Some(Return(TryScrapeReturn(outcome.value, used_rules)))]]
         /\ IF ShouldSave(TRUE, used_rules, cycle.rules[1])
            THEN /\ persisted' = Some(Persist(persisted[1], SavedRules(used_rules)))
                 /\ writers' = Append(writers, i)
            ELSE UNCHANGED <<persisted, writers>>

\* parse_products with the rules the cycle read; a ScraperError sends
\* try_scrape to its second fetch_html.
CycleExtract ==
    /\ \E i \in 1..Len(cycles) :
         /\ cycles[i].pc = "fetched1"
         /\ \E out \in {parse_products(cycles[i].html[1], category_url, cycles[i].rules[1])} :
              IF out.raised /\ CaughtByTryScrape(out.exc)
              THEN /\ cycles' = [cycles EXCEPT ![i] = [cycles[i] EXCEPT !.pc = "fetch2"]]
                   /\ UNCHANGED <<persisted, writers>>
              ELSE CycleEnd(i, cycles[i], out, cycles[i].rules[1])
    /\ UNCHANGED <<flowVars, categoryVars, callVars, healVars, parserVars>>

\* A fetch_html of the cycle raised: the first ScraperError is caught by
\* try_scrape, the second leaves it.
CycleFetchFailed ==
    /\ \E i \in 1..Len(cycles) :
         \/ /\ cycles[i].pc = "failed1"
            /\ cycles' = [cycles EXCEPT ![i] = [cycles[i] EXCEPT !.pc = "fetch2"]]
            /\ UNCHANGED <<persisted, writers>>
         \/ /\ cycles[i].pc = "failed2"
            /\ CycleEnd(i, cycles[i], Raise("ScraperError", cycles[i].last_error[1]),
                        cycles[i].rules[1])
    /\ UNCHANGED <<flowVars, categoryVars, callVars, healVars, parserVars>>

\* fix_rules and the retry of parse_products with the new rules.
RepairedOutcome(page, fixed) ==
    IF fixed.raised THEN fixed ELSE parse_products(page, category_url, fixed.value)

CycleRepair ==
    /\ \E i \in 1..Len(cycles), outcome \in CycleOracleOutcomes :
         /\ cycles[i].pc = "fetched2"
         /\ \E fixed \in {fix_rules(cycles[i].html[1], cycles[i].rules[1], outcome)} :
              CycleEnd(i, cycles[i], RepairedOutcome(cycles[i].html[1], fixed),
                       IF fixed.raised THEN cycles[i].rules[1] ELSE fixed.value)
    /\ UNCHANGED <<flowVars, categoryVars, callVars, healVars, parserVars>>

NextCycles ==
    \/ CycleBegin
    \/ CycleRequest
    \/ CycleExtract
    \/ CycleFetchFailed
    \/ CycleRepair

SpecCycles == InitCycles /\ [][NextCycles]_vars

(***************************************************************************)
(* parserai/core.py: the document tree.                                    *)
(*                                                                         *)
(* Markup is the sequence of events html.parser delivers to the handlers:  *)
(* start tags with their attributes, end tags and text.  The tree is the   *)
(* sequence of the nodes in the order they were created; a node holds the  *)
(* index of its parent, and the children of a node, in the order of its    *)
(* children list, are the nodes that name it as parent, in index order.    *)
(* Node 1 is the root, Node(tag="document").  A class attribute is the     *)
(* sequence of its whitespace-separated words, an absent attribute is      *)
(* empty.                                                                  *)
(***************************************************************************)

StartTag(tag, classes, id, src) ==
    [kind |-> "start", tag |-> tag, classes |-> classes, id |-> id, src |-> src,
     data |-> << >>]
EndTag(tag) ==
    [kind |-> "end", tag |-> tag, classes |-> << >>, id |-> "", src |-> "",
     data |-> << >>]
Data(text) ==
    [kind |-> "data", tag |-> "", classes |-> << >>, id |-> "", src |-> "",
     data |-> text]

\* Node(tag=tag, attrs=attrs_dict, children=[], text="", parent=self.current)
Node(tag, classes, id, src, parent) ==
    [tag |-> tag, classes |-> classes, id |-> id, src |-> src, text |-> << >>,
     parent |-> parent]

\* SimpleHTMLParser.__init__: the nodes in the order of their creation, the
\* children list of each node and the current node.
NewParser ==
    [nodes |-> <<Node("document", << >>, "", "", 0)>>, children |-> << << >> >>,
     current |-> 1]

\* node = Node(..., parent=self.current); self.current.children.append(node);
\* self.current = node
handle_starttag(p, event) ==
    [nodes    |-> Append(p.nodes, Node(event.tag, event.classes, event.id, event.src,
                                       p.current)),
     children |-> Append([p.children EXCEPT ![p.current] = Append(@, Len(p.nodes) + 1)],
                         << >>),
     current  |-> Len(p.nodes) + 1]

\* Mutant: the test for a parent is missing.
handle_endtag_unguarded(p, event) == [p EXCEPT !.current = p.nodes[p.current].parent]

handle_endtag(p, event) ==
    IF p.nodes[p.current].parent # 0
    THEN [p EXCEPT !.current = p.nodes[p.current].parent]
    ELSE p

handle_data(p, event) ==
    IF Strip(event.data) # << >>
    THEN [p EXCEPT !.nodes[p.current].text = @ \o event.data]
    ELSE p

\* HTMLParser.feed for one event.
Feed(p, event) ==
    CASE event.kind = "start" -> handle_starttag(p, event)
      [] event.kind = "end"   -> handle_endtag(p, event)
      [] event.kind = "data"  -> handle_data(p, event)

RECURSIVE FeedAll(_, _)
FeedAll(p, events) ==
    IF events = << >> THEN p ELSE FeedAll(Feed(p, Head(events)), Tail(events))

\* parse_html: the nodes of the tree under parser.root.
parse_html(markup) == FeedAll(NewParser, markup).nodes

\* node.children
Children(nodes, n) ==
    SelectSeq([i \in 1..Len(nodes) |-> i], LAMBDA i : nodes[i].parent = n)

\* Node.all_text
RECURSIVE AllText(_, _)
RECURSIVE AllTextOf(_, _)
AllTextOf(nodes, children) ==
    IF children = << >> THEN << >>
    ELSE AllText(nodes, Head(children)) \o AllTextOf(nodes, Tail(children))
AllText(nodes, n) == nodes[n].text \o AllTextOf(nodes, Children(nodes, n))

(***************************************************************************)
(* parserai/core.py: selectors.  A selector is the sequence of its         *)
(* whitespace-separated tokens.  A token is the sequence of its lexemes:   *)
(* names, "." and "#"; "h1.product-title" is <<"h1", ".", "product-title">>.*)
(* The modelled tokens have no [attr=value] part.                          *)
(***************************************************************************)

\* token.split(".")
RECURSIVE SplitAtDot(_, _)
SplitAtDot(token, part) ==
    IF token = << >> THEN <<part>>
    ELSE IF Head(token) = "." THEN <<part>> \o SplitAtDot(Tail(token), << >>)
    ELSE SplitAtDot(Tail(token), Append(part, Head(token)))

StartsWith(token, lexeme) == token # << >> /\ Head(token) = lexeme

\* The last part of _parse_selector_token, for what is left of the token:
\* if "." in token: ... elif token: tag = token
TagAndClasses(token, classes, id) ==
    IF \E i \in 1..Len(token) : token[i] = "."
    THEN [tag |-> Head(SplitAtDot(token, << >>)),
          classes |-> classes \o Tail(SplitAtDot(token, << >>)), id |-> id]
    ELSE [tag |-> token, classes |-> classes, id |-> id]

\* _parse_selector_token; None and "" are the empty sequence.
parse_selector_token(token) ==
    IF StartsWith(token, ".") THEN TagAndClasses(<< >>, <<Tail(token)>>, << >>)
    ELSE IF StartsWith(token, "#") THEN TagAndClasses(<< >>, << >>, Tail(token))
    ELSE TagAndClasses(token, << >>, << >>)

\* _matches_token for a parsed token
MatchesParsed(node, spec) ==
    /\ node.tag # "document"
    /\ ~(spec.tag # << >> /\ <<node.tag>> # spec.tag)
    /\ ~(spec.id # << >> /\ <<node.id>> # spec.id)
    /\ \A c \in 1..Len(spec.classes) :
         \E w \in 1..Len(node.classes) : <<node.classes[w]>> = spec.classes[c]

matches_token(node, token) == MatchesParsed(node, parse_selector_token(token))

\* _descendant_matches: the loop over node.children from the given child on,
\* with the matches list so far.  index counts the tokens from 1.
RECURSIVE descendant_matches(_, _, _, _)
RECURSIVE ScanChildren(_, _, _, _, _)

\* if deeper: return deeper; nested = ...; if nested: matches.append(nested)
DeeperOrNested(nodes, children, tokens, index, matches, deeper) ==
    IF deeper # None THEN deeper
    ELSE ScanChildren(nodes, Tail(children), tokens, index,
                      matches \o descendant_matches(nodes, Head(children), tokens, index))

ScanChildren(nodes, children, tokens, index, matches) ==
    IF children = << >> THEN First(matches)
    ELSE IF matches_token(nodes[Head(children)], tokens[index])
    THEN IF index = Len(tokens) THEN Some(Head(children))
         ELSE DeeperOrNested(nodes, children, tokens, index, matches,
                  descendant_matches(nodes, Head(children), tokens, index + 1))
    ELSE ScanChildren(nodes, Tail(children), tokens, index,
                      matches \o descendant_matches(nodes, Head(children), tokens, index))

descendant_matches(nodes, n, tokens, index) ==
    IF index > Len(tokens) THEN None
    ELSE ScanChildren(nodes, Children(nodes, n), tokens, index, << >>)

\* Mutant: only the last token is looked for.
select_first_last_token(nodes, selector) ==
    IF selector = << >> THEN None
    ELSE descendant_matches(nodes, 1, <<selector[Len(selector)]>>, 1)

\* select_first(root, selector): the index of the node, or None.
select_first(nodes, selector) ==
    IF selector = << >> THEN None ELSE descendant_matches(nodes, 1, selector, 1)

(***************************************************************************)
(* parserai/core.py: _score_node, _find_best_selector, analyze_html,       *)
(* self_heal_algorithm                                                     *)
(***************************************************************************)

KEYWORDS ==
    [title       |-> {"title", "name", "product-title", "product_name", "product-name"},
     price       |-> {"price", "amount", "cost", "value"},
     description |-> {"description", "details", "product-description"},
     images      |-> {"image", "photo", "gallery", "product-image"},
     attributes  |-> {"spec", "feature", "detail", "attribute", "info"}]

AlgoFields == {"title", "price", "description", "images", "attributes"}

\* The keywords that are substrings of a name (kw in class_attr, kw in
\* node.tag, kw in id), for the names of the modelled markup.
KeywordsWithin(name) ==
    CASE name = "title"               -> {"title"}
      [] name = "product-title"       -> {"title", "product-title"}
      [] name = "price"               -> {"price"}
      [] name = "price-main"          -> {"price"}
      [] name = "product-description" -> {"description", "product-description"}
      [] name = "gallery"             -> {"gallery"}
      [] name = "spec-list"           -> {"spec"}
      [] OTHER                        -> {}

\* node.tag.startswith("h") and node.tag[1:].isdigit()
IsHeadingTag(tag) == tag \in {"h1", "h2", "h3", "h4", "h5", "h6"}

\* The score one keyword adds.
KeywordScore(node, kw) ==
    (IF \E w \in 1..Len(node.classes) : kw \in KeywordsWithin(node.classes[w])
     THEN 3 ELSE 0)
    + (IF kw \in KeywordsWithin(node.tag) THEN 2 ELSE 0)
    + (IF kw \in KeywordsWithin(node.id) THEN 4 ELSE 0)

RECURSIVE SumScores(_, _)
SumScores(node, keywords) ==
    IF keywords = {} THEN 0
    ELSE KeywordScore(node, CHOOSE kw \in keywords : TRUE)
         + SumScores(node, keywords \ {CHOOSE kw \in keywords : TRUE})

score_node(node, keywords) ==
    SumScores(node, keywords) + (IF IsHeadingTag(node.tag) THEN 1 ELSE 0)

\* The score _find_best_selector gives a node for a field.
FieldScore(nodes, n, field) ==
    score_node(nodes[n], KEYWORDS[field])
    + (IF field = "price" /\ HasDigit(AllText(nodes, n)) THEN 2 ELSE 0)
    + (IF field = "images" /\ nodes[n].tag = "img" /\ nodes[n].src # "" THEN 4 ELSE 0)

\* ".".join(node_classes), each class preceded by "."
RECURSIVE DottedClasses(_)
DottedClasses(classes) ==
    IF classes = << >> THEN << >>
    ELSE <<".", Head(classes)>> \o DottedClasses(Tail(classes))

\* The token _find_best_selector builds for a node.
TokenOf(node) ==
    IF node.id # "" THEN <<"#", node.id>>
    ELSE <<node.tag>> \o DottedClasses(node.classes)

\* if best is None or score > best[0]: best = (score, token)
Better(best, score, token) ==
    IF best = None \/ score > best[1].score
    THEN Some([score |-> score, token |-> token])
    ELSE best

\* visit(node, path) of _find_best_selector: best after the visit of node n,
\* then of its children in order.
RECURSIVE Visit(_, _, _, _)
RECURSIVE VisitAll(_, _, _, _)
VisitAll(nodes, children, field, best) ==
    IF children = << >> THEN best
    ELSE VisitAll(nodes, Tail(children), field,
                  Visit(nodes, Head(children), field, best))
Visit(nodes, n, field, best) ==
    IF nodes[n].tag = "document"
    THEN VisitAll(nodes, Children(nodes, n), field, best)
    ELSE VisitAll(nodes, Children(nodes, n), field,
                  Better(best, FieldScore(nodes, n, field), TokenOf(nodes[n])))

\* return best[1] if best else ""; the selector is the one token.
BestToken(best) == IF best = None THEN << >> ELSE <<best[1].token>>

find_best_selector(nodes, field) == BestToken(Visit(nodes, 1, field, None))

\* DEFAULT_META["confidence"], in hundredths.
DefaultConfidence == 60

\* The keys of a dict whose selector is empty.
Warnings(selectors) == {key \in DOMAIN selectors : selectors[key] = << >>}

analyze_html(markup) ==
    [selectors |-> [field \in AlgoFields |-> find_best_selector(parse_html(markup), field)],
     meta |-> [confidence |-> Some(DefaultConfidence),
               warnings |-> Warnings([field \in AlgoFields |->
                                find_best_selector(parse_html(markup), field)])]]

Max(a, b) == IF a >= b THEN a ELSE b
Min(a, b) == IF a <= b THEN a ELSE b

\* Mutant: the floor is missing.
Clamp_no_floor(x) == Min(100, x)

\* max(0.3, min(1.0, x)), in hundredths
Clamp(x) == Max(30, Min(100, x))

\* meta["confidence"] of self_heal_algorithm, in hundredths:
\* meta.get("confidence", 0.6) - 0.05 + 0.1 * len(meta["warnings"])
HealedConfidence(stored, warnings) ==
    Clamp((IF stored = None THEN DefaultConfidence ELSE stored[1])
          - 5 + 10 * Cardinality(warnings))

\* Mutant: every selector is replaced, whether it still matches or not.
UpdatedSelectors_all(nodes, selectors) ==
    [key \in DOMAIN selectors |-> find_best_selector(nodes, key)]

\* updated_selectors of self_heal_algorithm
UpdatedSelectors(nodes, selectors) ==
    [key \in DOMAIN selectors |->
        IF select_first(nodes, selectors[key]) = None
        THEN find_best_selector(nodes, key)
        ELSE selectors[key]]

HealedMeta(stored, updated) ==
    [confidence |-> Some(HealedConfidence(stored, Warnings(updated))),
     warnings |-> Warnings(updated)]

self_heal_algorithm(error_html, previous_algo) ==
    [selectors |-> UpdatedSelectors(parse_html(error_html), previous_algo.selectors),
     meta |-> HealedMeta(previous_algo.meta.confidence,
                         UpdatedSelectors(parse_html(error_html), previous_algo.selectors))]

\* previous_algo as self_heal_algorithm leaves it: the function writes to
\* dict(previous_algo.selectors) and dict(previous_algo.meta), which are
\* copies, and only reads previous_algo.rules.
PreviousAfterHeal(error_html, previous_algo) ==
    [selectors |-> previous_algo.selectors, meta |-> previous_algo.meta]

(***************************************************************************)
(* Pages given to analyze_html and self_heal_algorithm                     *)
(***************************************************************************)

Element1(tag, classes, id, src, text) ==
    <<StartTag(tag, classes, id, src)>>
    \o (IF text = << >> THEN << >> ELSE <<Data(text)>>)
    \o <<EndTag(tag)>>

\* SAMPLE_HTML of tests/test_core.py without its html and body elements.
SampleProductPage ==
    Element1("h1", <<"product-title">>, "", "", <<"A">>)
    \o Element1("div", <<"price">>, "", "", <<"$", "1", "0">>)
    \o Element1("div", <<"product-description">>, "", "", <<"d">>)
    \o <<StartTag("div", <<"gallery">>, "", "")>>
    \o Element1("img", << >>, "", "/img/1.jpg", << >>)
    \o <<EndTag("div")>>
    \o <<StartTag("ul", <<"spec-list">>, "", "")>>
    \o Element1("li", << >>, "", "", <<"F">>)
    \o <<EndTag("ul")>>

\* The same product after a redesign: other tags, ids instead of classes.
RedesignedPage ==
    <<StartTag("div", << >>, "main", "")>>
    \o Element1("h2", << >>, "", "", <<"A">>)
    \o Element1("span", << >>, "price-main", "", <<"9">>)
    \o <<EndTag("div")>>

PlainPage == Element1("p", << >>, "", "", <<"x">>)

TextOnlyPage == <<Data(<<"x">>)>>

EmptyPage == << >>

Markups == {SampleProductPage, RedesignedPage, PlainPage, TextOnlyPage, EmptyPage}

MissingSelector == <<<<"#", "missing">>>>

\* A selector that matches on the pages with a div, where it is not the
\* best selector of any field.
DivSelector == <<<<"div">>>>

\* The selectors of the stored algorithms.
StoredSelectors ==
    {analyze_html(page).selectors : page \in Markups}
    \cup {[field \in AlgoFields |-> MissingSelector]}
    \cup {[field \in AlgoFields |-> DivSelector]}
    \cup {[field \in AlgoFields |->
             IF field \in {"title", "price"} THEN analyze_html(SampleProductPage).selectors[field]
             ELSE MissingSelector]}

\* The stored confidences, in hundredths; None when meta has no confidence.
StoredConfidences == {None} \cup {Some(c) : c \in {-20, 0, 17, 30, 33, 50, 60, 95, 100, 140}}

\* Largest number of successive repairs.
MaxHeals == 3

InitHeal ==
    /\ algo \in {Some([selectors |-> s, meta |-> [confidence |-> c, warnings |-> Warnings(s)]])
                   : s \in StoredSelectors, c \in StoredConfidences}
    /\ heals = 0
    /\ healed_from = None
    /\ FlowIdle /\ CategoriesIdle /\ CyclesIdle /\ CallsIdle /\ ParserIdle

\* algo = self_heal_algorithm(error_html, algo)
SelfHeal ==
    /\ heals < MaxHeals
    /\ \E page \in Markups :
         /\ algo' = Some(self_heal_algorithm(page, algo[1]))
         /\ healed_from' = Some([page |-> page, algo |-> algo[1],
                                  previous |-> PreviousAfterHeal(page, algo[1])])
    /\ heals' = heals + 1
    /\ UNCHANGED <<flowVars, categoryVars, cycleVars, callVars, parserVars>>

NextHeal == SelfHeal

SpecHeal == InitHeal /\ [][NextHeal]_vars

(***************************************************************************)
(* parserai/core.py: product matching.  A title is a sequence of           *)
(* one-character strings.  A float that the code obtains by dividing two   *)
(* integers is kept as that fraction; fractions are compared by cross      *)
(* multiplication, which orders them as the correctly rounded quotients    *)
(* are ordered for the sizes that occur.                                   *)
(***************************************************************************)

TitleLetters == {"a", "b", "c", "A"}

\* The character class [\w-]
WordChar(ch) == ch \in TitleLetters \cup Digits \cup {"_", "-"}

\* Where re.findall(r"[\w-]+", text) starts a match in a text of n
\* characters, and where that match ends: at the last character of the
\* maximal run of class characters.
TokenStarts(text, n) ==
    { i \in 1..n : WordChar(text[i]) /\ (i = 1 \/ ~WordChar(text[i - 1])) }

TokenEnd(text, n, i) ==
    CHOOSE j \in i..n :
        /\ j = n \/ ~WordChar(text[j + 1])
        /\ \A k \in i..j : WordChar(text[k])

SpansWithin(text, n) == { <<i, TokenEnd(text, n, i)>> : i \in TokenStarts(text, n) }

TokenSpans(text) == SpansWithin(text, Len(text))

\* text[i:j+1] for the span (i, j)
TokenAt(text, span) ==
    [k \in 1..(span[2] - span[1] + 1) |-> text[span[1] + k - 1]]

\* Counter(tokens): each distinct token with the number of its occurrences
Counter(text, spans) ==
    [t \in { TokenAt(text, s) : s \in spans } |->
        Cardinality({ s \in spans : TokenAt(text, s) = t })]

tokenize(text) == Counter(Lower(text), TokenSpans(Lower(text)))

\* ca & cb : the smaller count of the tokens both have
CounterAnd(ca, cb) ==
    [t \in (DOMAIN ca) \cap (DOMAIN cb) |-> Min(ca[t], cb[t])]

\* ca | cb : the larger count of the tokens either has
CounterOr(ca, cb) ==
    [t \in (DOMAIN ca) \cup (DOMAIN cb) |-> Max(DictGet(ca, t, 0), DictGet(cb, t, 0))]

RECURSIVE SumOver(_, _)
SumOver(counter, keys) ==
    IF keys = {} THEN 0
    ELSE LET k == CHOOSE x \in keys : TRUE
         IN counter[k] + SumOver(counter, keys \ {k})

\* sum(counter.values())
SumValues(counter) == SumOver(counter, DOMAIN counter)

Fraction(n, d) == [num |-> n, den |-> d]

Zero == Fraction(0, 1)

FloatEq(x, y) == x.num * y.den = y.num * x.den

FloatLess(x, y) == x.num * y.den < y.num * x.den

\* Mutant: the tokens of the first title only.
UnionSize_first(ca, cb) == SumValues(ca)

\* union = sum((ca | cb).values())
UnionSize(ca, cb) == SumValues(CounterOr(ca, cb))

\* intersection / union if union else 0.0
Quotient(intersection, union) ==
    IF union # 0 THEN Fraction(intersection, union) ELSE Zero

CounterSimilarity(ca, cb) ==
    IF DOMAIN ca = {} \/ DOMAIN cb = {} THEN Zero
    ELSE Quotient(SumValues(CounterAnd(ca, cb)), UnionSize(ca, cb))

similarity(a, b) == CounterSimilarity(tokenize(a), tokenize(b))

\* round(x, 3) in thousandths.  A quotient exactly half way between two
\* thousandths goes to the even one; the modelled titles give no such
\* quotient.
RoundHalfEven(q, twice_rest, den) ==
    IF twice_rest > den THEN q + 1
    ELSE IF twice_rest < den THEN q
    ELSE IF q % 2 = 0 THEN q ELSE q + 1

Round3(x) ==
    RoundHalfEven((1000 * x.num) \div x.den, 2 * ((1000 * x.num) % x.den), x.den)

\* Mutant: if score >= best_score.
BetterEntry_last_on_ties(best, pid, score) ==
    IF ~FloatLess(score, best.score) THEN [id |-> Some(pid), score |-> score] ELSE best

\* if score > best_score: best_score = score; best_id = pid
BetterEntry(best, pid, score) ==
    IF FloatLess(best.score, score) THEN [id |-> Some(pid), score |-> score] ELSE best

\* The loop of match_competitor_product: catalog is the sequence of the
\* items of the dict, in insertion order; best is (best_id, best_score).
RECURSIVE BestMatch(_, _, _)
BestMatch(competitor_title, catalog, best) ==
    IF catalog = <<>> THEN best
    ELSE BestMatch(competitor_title, Tail(catalog),
                   BetterEntry(best, Head(catalog).pid,
                               similarity(competitor_title, Head(catalog).title)))

MatchResult(competitor_title, best) ==
    [competitor_title |-> competitor_title,
     our_id |-> best.id,
     match_confidence |-> Round3(best.score),
     reason |-> IF best.score.num # 0 THEN "matched by token similarity"
                ELSE "no sufficient similarity"]

match_competitor_product(competitor_title, our_catalog) ==
    MatchResult(competitor_title,
                BestMatch(competitor_title, our_catalog, [id |-> None, score |-> Zero]))
(***************************************************************************)
(* parser_engine/matcher_ai.py: _similarity, _heuristic_match.             *)
(* difflib.SequenceMatcher(None, a, b).ratio() for sequences shorter than  *)
(* 200 elements (no junk): the longest common block is taken, the one      *)
(* starting earliest in a and then earliest in b among the longest, and    *)
(* the pieces to its left and to its right are matched in the same way.    *)
(***************************************************************************)

\* (i, j, k) : a[i .. i+k-1] and b[j .. j+k-1] are equal and not empty
CommonBlocks(a, b) ==
    { blk \in (1..Len(a)) \X (1..Len(b)) \X (1..Min(Len(a), Len(b))) :
        /\ blk[1] + blk[3] - 1 <= Len(a)
        /\ blk[2] + blk[3] - 1 <= Len(b)
        /\ SubSeq(a, blk[1], blk[1] + blk[3] - 1) = SubSeq(b, blk[2], blk[2] + blk[3] - 1) }

\* find_longest_match
LongestMatch(blocks) ==
    CHOOSE x \in blocks : \A y \in blocks :
        \/ x[3] > y[3]
        \/ x[3] = y[3] /\ x[1] < y[1]
        \/ x[3] = y[3] /\ x[1] = y[1] /\ x[2] <= y[2]

\* get_matching_blocks: the sum of the sizes of the matching blocks
RECURSIVE MatchedSize(_, _)
AroundBlock(a, b, blk) ==
    blk[3]
    + MatchedSize(SubSeq(a, 1, blk[1] - 1), SubSeq(b, 1, blk[2] - 1))
    + MatchedSize(SubSeq(a, blk[1] + blk[3], Len(a)), SubSeq(b, blk[2] + blk[3], Len(b)))

MatchedSize(a, b) ==
    IF CommonBlocks(a, b) = {} THEN 0
    ELSE AroundBlock(a, b, LongestMatch(CommonBlocks(a, b)))

\* _calculate_ratio: 2.0 * matches / length if length else 1.0
calculate_ratio(matches, length) ==
    IF length # 0 THEN Fraction(2 * matches, length) ELSE Fraction(1, 1)

ratio(a, b) == calculate_ratio(MatchedSize(a, b), Len(a) + Len(b))

matcher_similarity(a, b) == ratio(Lower(a), Lower(b))

\* if score > best_score: best_score = score; best_product = item
BetterItem(best, item, score) ==
    IF FloatLess(best.score, score) THEN [score |-> score, product |-> Some(item)] ELSE best

\* The inner loop of _heuristic_match; best is (best_score, best_product).
RECURSIVE BestItem(_, _, _)
BestItem(our_name, competitor_products, best) ==
    IF competitor_products = <<>> THEN best
    ELSE BestItem(our_name, Tail(competitor_products),
                  BetterItem(best, Head(competitor_products),
                             matcher_similarity(our_name, Head(competitor_products).name)))

\* (best_product or {}).get(key, default)
BestGet(best, key, default) ==
    IF best.product = None THEN default ELSE best.product[1][key]

HeuristicMatchOf(product, best, competitor_id) ==
    [competitor_id |-> competitor_id,
     our_code |-> product.code,
     our_name |-> product.name,
     competitor_name |-> BestGet(best, "name", <<>>),
     competitor_url |-> BestGet(best, "url", ""),
     competitor_price |-> IF best.product = None THEN None ELSE Some(best.product[1].price),
     confidence |-> Round3(best.score)]

heuristic_match(our_products, competitor_products, competitor_id) ==
    [i \in 1..Len(our_products) |->
        HeuristicMatchOf(our_products[i],
                         BestItem(our_products[i].name, competitor_products,
                                  [score |-> Zero, product |-> None]),
                         competitor_id)]

(***************************************************************************)
(* parser_engine/fallback_logic.py: build_category_groups, and main.py:    *)
(* build_category_tree.  A URL is its scheme and host together with its    *)
(* path; a path is the sequence of the pieces between its slashes, so      *)
(* "/ua/tools/" is <<"", "ua", "tools", "">> and "" is <<"">>.  A tree     *)
(* level is the sequence of its nodes; a node that is not a category has   *)
(* url None.                                                               *)
(***************************************************************************)

\* path.strip("/")
RECURSIVE LStripSlashes(_)
LStripSlashes(pieces) ==
    IF Len(pieces) > 1 /\ Head(pieces) = "" THEN LStripSlashes(Tail(pieces)) ELSE pieces

RECURSIVE RStripSlashes(_)
RStripSlashes(pieces) ==
    IF Len(pieces) > 1 /\ pieces[Len(pieces)] = ""
    THEN RStripSlashes(SubSeq(pieces, 1, Len(pieces) - 1))
    ELSE pieces

StripSlashes(pieces) == RStripSlashes(LStripSlashes(pieces))

NonEmptyPiece(p) == p # ""

\* [p for p in parsed.path.strip("/").split("/") if p]
PathParts(url) == SelectSeq(StripSlashes(url.path), NonEmptyPiece)

\* Mutant: no locale segment is recognized.
LOCALES_none == {}

LOCALES == {"ru", "ua", "uk"}

\* if parts and parts[0] in {"ru", "ua", "uk"}: parts = parts[1:]
WithoutLocale(parts) ==
    IF parts # <<>> /\ parts[1] \in LOCALES THEN Tail(parts) ELSE parts

\* The Ukrainian word for "other", here in Latin letters.
OTHER_GROUP == "Inshe"

\* group_key = parts[0] if parts else the word for "other"
GroupKey(parts) == IF parts # <<>> THEN parts[1] ELSE OTHER_GROUP

\* The index of the first node of the level with this name, or 0.
IndexOfName(nodes, name) ==
    IF \E i \in 1..Len(nodes) : nodes[i].name = name
    THEN CHOOSE i \in 1..Len(nodes) :
            /\ nodes[i].name = name
            /\ \A k \in 1..(i - 1) : nodes[k].name # name
    ELSE 0

\* The loop over remaining_parts with _find_or_create, and the final
\* append of the category.
RECURSIVE InsertLeaf(_, _, _)
InsertUnder(level, at, parts, leaf) ==
    IF at = 0
    THEN Append(level, [name |-> Head(parts), url |-> None,
                        children |-> InsertLeaf(<< >>, Tail(parts), leaf)])
    ELSE [level EXCEPT ![at] =
             [name |-> level[at].name, url |-> level[at].url,
              children |-> InsertLeaf(level[at].children, Tail(parts), leaf)]]

InsertLeaf(level, parts, leaf) ==
    IF parts = << >> THEN Append(level, leaf)
    ELSE InsertUnder(level, IndexOfName(level, Head(parts)), parts, leaf)

IndexOfGroup(groups, key) ==
    IF \E i \in 1..Len(groups) : groups[i].group_name = key
    THEN CHOOSE i \in 1..Len(groups) : groups[i].group_name = key
    ELSE 0

\* if group_key not in groups: groups[group_key] = {...}
WithGroup(groups, key) ==
    IF IndexOfGroup(groups, key) = 0
    THEN Append(groups, [group_name |-> key, items |-> << >>])
    ELSE groups

InsertIntoGroup(groups, at, rest, leaf) ==
    [groups EXCEPT ![at] =
        [group_name |-> groups[at].group_name,
         items |-> InsertLeaf(groups[at].items, rest, leaf)]]

\* One iteration of the loop: the groups, in the insertion order of the
\* dict, after the category is added under its path.
AddToGroups(groups, parts, leaf) ==
    InsertIntoGroup(WithGroup(groups, GroupKey(parts)),
                    IndexOfGroup(WithGroup(groups, GroupKey(parts)), GroupKey(parts)),
                    IF parts = << >> THEN << >> ELSE Tail(parts), leaf)

CategoryLeaf(name, url) == [name |-> name, url |-> Some(url), children |-> << >>]

RECURSIVE TreeLoop(_, _)
TreeLoop(categories, groups) ==
    IF categories = << >> THEN groups
    ELSE TreeLoop(Tail(categories),
                  AddToGroups(groups, WithoutLocale(PathParts(Head(categories).url)),
                              CategoryLeaf(Head(categories).name, Head(categories).url)))

\* main.py: list(groups.values())
build_category_tree(categories) == TreeLoop(categories, << >>)

\* str.strip() of the modelled names
StripName(name) ==
    CASE name = " " -> ""
      [] name = " Saws " -> "Saws"
      [] OTHER -> name

\* str(cat_data.get("url", "") or "").strip() is empty
EmptyUrl(url) == url.host = "" /\ url.path = <<"">>

RECURSIVE GroupsLoop(_, _)
GroupsLoop(categories, groups) ==
    IF categories = << >> THEN groups
    ELSE IF EmptyUrl(Head(categories).url) \/ StripName(Head(categories).name) = ""
    THEN GroupsLoop(Tail(categories), groups)
    ELSE GroupsLoop(Tail(categories),
                    AddToGroups(groups, WithoutLocale(PathParts(Head(categories).url)),
                                CategoryLeaf(StripName(Head(categories).name),
                                             Head(categories).url)))

\* The group names that occur, in the order of Python's str comparison:
\* the Cyrillic letters of the word for "other" follow the Latin ones.
GROUP_NAME_ORDER == <<"drills", "ru", "tools", "ua", "uk", OTHER_GROUP>>

\* sorted(groups.values(), key=group_name): the names of a dict are
\* different, so the result holds the groups by ascending name.
RECURSIVE SortedFrom(_, _)
SortedFrom(groups, rank) ==
    IF rank > Len(GROUP_NAME_ORDER) THEN << >>
    ELSE (IF IndexOfGroup(groups, GROUP_NAME_ORDER[rank]) = 0 THEN << >>
          ELSE <<groups[IndexOfGroup(groups, GROUP_NAME_ORDER[rank])]>>)
         \o SortedFrom(groups, rank + 1)

SortedByName(groups) == SortedFrom(groups, 1)

build_category_groups(categories) == SortedByName(GroupsLoop(categories, << >>))

(***************************************************************************)
(* Calls of the matching and grouping functions.  A call records the       *)
(* function with its arguments and the value it returned.                  *)
(***************************************************************************)

\* Number of "b" tokens of the long title.
LongRun == 2000

\* "a b b ... b"
LongTitle ==
    [i \in 1..(2 * LongRun + 1) |->
        IF i = 1 THEN "a" ELSE IF i % 2 = 0 THEN " " ELSE "b"]

CatalogTitles ==
    { << >>,
      <<"a">>,
      <<"b">>,
      <<"a", " ", "b">>,
      <<"A", ",", "b", " ", "b">> }

Titles ==
    CatalogTitles \cup
    { <<"b", " ", "a">>,
      <<"!", " ", ",">>,
      <<"a", "-", "b">>,
      <<"a", " ", "b", " ", "c", "_", "1">>,
      <<"b", " ", "b", " ", "a", " ", "c">>,
      LongTitle }

\* Largest number of entries of a modelled catalog.
MaxCatalog == 2

\* Product ids, in the order the entries were inserted into the dict.
CatalogIds == <<7, 3, 5, 1>>

\* Catalogs of up to MaxCatalog entries with different titles.
Catalogs ==
    { titles \in UNION { [1..n -> CatalogTitles] : n \in 0..MaxCatalog } :
        \A i \in 1..Len(titles), k \in 1..Len(titles) :
            i # k => titles[i] # titles[k] }

CatalogItems(titles) ==
    [i \in 1..Len(titles) |-> [pid |-> CatalogIds[i], title |-> titles[i]]]

Call(fn, args, value) ==
    /\ called' = Some([fn |-> fn, args |-> args])
    /\ ret' = Some(value)
    /\ UNCHANGED <<flowVars, categoryVars, cycleVars, healVars, parserVars>>

InitCalls ==
    /\ FlowIdle
    /\ CategoriesIdle
    /\ CyclesIdle
    /\ CallsIdle
    /\ HealIdle
    /\ ParserIdle

CallSimilarity ==
    /\ called = None
    /\ \E a \in Titles, b \in Titles :
           Call("core._similarity", <<a, b>>, similarity(a, b))

CallMatchCompetitorProduct ==
    /\ called = None
    /\ \E competitor_title \in Titles, titles \in Catalogs :
           Call("match_competitor_product",
                <<competitor_title, CatalogItems(titles)>>,
                match_competitor_product(competitor_title, CatalogItems(titles)))

ProductNames ==
    { << >>,
      <<"a", "b">>,
      <<"b", "a">>,
      <<"A", "b", "c">> }

\* Largest number of our products in a modelled call.
MaxProducts == 2

NameLists(n) == UNION { [1..k -> ProductNames] : k \in 0..n }

OurProducts(names) ==
    [i \in 1..Len(names) |-> [code |-> "SKU-" \o ToString(i), name |-> names[i]]]

CompetitorProducts(names) ==
    [i \in 1..Len(names) |->
        [name |-> names[i], url |-> "/p/" \o ToString(i), price |-> 100 + i]]

CallMatcherSimilarity ==
    /\ called = None
    /\ \E a \in ProductNames, b \in ProductNames :
           Call("matcher_ai._similarity", <<a, b>>, matcher_similarity(a, b))

CallHeuristicMatch ==
    /\ called = None
    /\ \E ours \in NameLists(MaxProducts), theirs \in NameLists(MaxCatalog) :
           Call("_heuristic_match",
                <<OurProducts(ours), CompetitorProducts(theirs)>>,
                heuristic_match(OurProducts(ours), CompetitorProducts(theirs), "c1"))

\* The pieces of the modelled paths; the empty piece gives "//" and a
\* trailing "/".
Pieces == {"", "ua", "uk", "tools", "drills"}

\* Largest number of pieces after the leading slash of a modelled path.
MaxPieces == 3

HOST == "https://shop.example"

\* "https://shop.example" followed by "/" and a piece, for each piece
UrlOf(pieces) == [host |-> HOST, path |-> <<"">> \o pieces]

EMPTY_URL == [host |-> "", path |-> <<"">>]

\* The URLs with at most n pieces after the leading slash, and the empty
\* URL.
CategoryUrls(n) ==
    { UrlOf(pieces) : pieces \in UNION { [1..k -> Pieces] : k \in 0..n } }
    \cup {EMPTY_URL}

\* One category, or two: the second one is named " Saws " and has a
\* shorter path.
CategoryLists ==
    { <<[name |-> name, url |-> url]>> :
        name \in {"Drills", " "}, url \in CategoryUrls(MaxPieces) }
    \cup
    { <<[name |-> first[1], url |-> first[2]], [name |-> " Saws ", url |-> url]>> :
        first \in {"Drills", " "} \X CategoryUrls(MaxPieces),
        url \in CategoryUrls(MaxPieces - 1) }

CallBuildCategoryGroups ==
    /\ called = None
    /\ \E categories \in CategoryLists :
           Call("build_category_groups", <<categories>>, build_category_groups(categories))

CallBuildCategoryTree ==
    /\ called = None
    /\ \E categories \in CategoryLists :
           Call("build_category_tree", <<categories>>, build_category_tree(categories))

\* Product cards whose price element and second price element carry the
\* given texts: <div class="product-card"><h2>name</h2>
\* <span class="price">price</span><span class="product-price">alt</span>
\* <a href="/product/1"></a></div>
PriceCard(card) ==
    Element("div", {"product-card"}, <<>>, NoHref,
            <<Element("h2", {}, card.name, NoHref, <<>>),
              Element("span", {"price"}, card.price, NoHref, <<>>),
              Element("span", {"product-price"}, card.alt, NoHref, <<>>),
              LinkElement>>)

PricePage(cards) ==
    [note |-> <<>>, nodes |-> [i \in 1..Len(cards) |-> PriceCard(cards[i])]]

\* "1 299,00 uah": the price text of the end-to-end scenario, with the
\* currency in ASCII letters.
ScenarioPrice == <<"1", " ", "2", "9", "9", ",", "0", "0", " ", "u", "a", "h">>

PriceTexts ==
    { <<>>,
      <<" ">>,
      ScenarioPrice,
      <<"a", "b">>,
      <<"1", ".", "2", "9", "9", ",", "0", "0">>,
      <<" ", "1", "2", ".", "5", " ">>,
      <<"7">> }

AltTexts == { <<>>, <<"5">> }

CardNames == { <<>>, <<"T", "V">> }

\* Named cards with every price text; the second price element has a text
\* where the first one is empty or blank; one card without a name.
PriceCards ==
    {card \in [name : CardNames, price : PriceTexts, alt : AltTexts] :
        /\ card.alt # << >> => card.price \in { << >>, <<" ">> }
        /\ card.name = << >> => card.price = <<"7">>}

\* Largest number of cards on a page of price cards.
MaxPriceCards == 2

PriceCardSeqs == UNION {[1..n -> PriceCards] : n \in 0..MaxPriceCards}

\* Rule sets that differ in the order of the price alternatives.
PriceRuleSets ==
    { DEFAULT_RULES,
      [DEFAULT_RULES EXCEPT !.price_selector = <<".product-price", ".price">>] }

CallParseProducts ==
    /\ called = None
    /\ \E cards \in PriceCardSeqs, rs \in PriceRuleSets :
           Call("parse_products", <<cards, rs>>,
                parse_products(PricePage(cards), category_url, rs))

\* The markup given to parse_html in one call: up to MaxEvents start tags,
\* end tags and texts in any order.
MaxEvents == 4

MarkupEvents ==
    { StartTag("div", << >>, "", ""), StartTag("span", << >>, "", ""),
      EndTag("div"), EndTag("span"), Data(<<"x">>) }

MarkupSeqs == UNION {[1..n -> MarkupEvents] : n \in 0..MaxEvents}

\* parser.feed(html); return parser.root, with the children lists
CallParseHtml ==
    /\ called = None
    /\ \E markup \in MarkupSeqs :
           Call("parse_html", <<markup>>,
                [nodes    |-> FeedAll(NewParser, markup).nodes,
                 children |-> FeedAll(NewParser, markup).children])

\* Previous rules given to fix_rules: the modelled rule sets and one with
\* an unknown key and without most of the known ones.
PreviousRuleSets ==
    RuleSets \cup {[product_item |-> <<".old-card">>, image_selector |-> <<".badge">>]}

\* Pages whose cards all have a name.
NamedPages ==
    {MakePage(t, [i \in 1..n |-> "named"]) : t \in Templates, n \in 0..MaxItems}

CallFixRules ==
    /\ called = None
    /\ \E page \in NamedPages, old_rules \in PreviousRuleSets, outcome \in OracleOutcomes :
           Call("fix_rules", <<page, old_rules, outcome>>,
                fix_rules(page, old_rules, outcome))

\* What the fetch_html call of generate_rules does.
Fetched ==
    {Return(page) : page \in NamedPages}
    \cup {Raise("ScraperError", why) : why \in {"FetchBlocked", "TimeoutException"}}

CallGenerateRules ==
    /\ called = None
    /\ \E fetched \in Fetched, outcome \in OracleOutcomes :
           Call("generate_rules", <<fetched, outcome>>, generate_rules(fetched, outcome))

Returned ==
    /\ called # None
    /\ called' = None
    /\ ret' = None
    /\ UNCHANGED <<flowVars, categoryVars, cycleVars, healVars, parserVars>>

NextCalls ==
    \/ CallSimilarity
    \/ CallMatchCompetitorProduct
    \/ CallMatcherSimilarity
    \/ CallHeuristicMatch
    \/ CallBuildCategoryGroups
    \/ CallBuildCategoryTree
    \/ CallParseProducts
    \/ CallParseHtml
    \/ CallFixRules
    \/ CallGenerateRules
    \/ Returned

SpecCalls == InitCalls /\ [][NextCalls]_vars

(***************************************************************************)
(* Parsing a document event by event and selecting in the tree built so    *)
(* far.  open_tags follows the nesting of the markup itself: a start tag   *)
(* opens an element, an end tag closes the innermost open element if it    *)
(* has that tag, and any other end tag makes the markup ill formed.        *)
(***************************************************************************)

\* Largest number of elements of a modelled document.
MaxElements == 3

ElementTags == {"div", "span"}

\* <div>, <div class="a b">, <span class="a" id="x">
StartTags ==
    { StartTag("div", << >>, "", ""),
      StartTag("div", <<"a", "b">>, "", ""),
      StartTag("span", <<"a">>, "x", "") }

TextData == { <<"x">>, <<" ">> }

\* "div", ".a", "div.a", "#x", "span#x", ".a.b" and chains of them
Selectors ==
    { << >>,
      <<<<"div">>>>,
      <<<<".", "a">>>>,
      <<<<"#", "x">>>>,
      <<<<"span", "#", "x">>>>,
      <<<<".", "a", ".", "b">>>>,
      <<<<"div">>, <<"span">>>>,
      <<<<"div", ".", "a">>, <<".", "a">>>>,
      <<<<".", "a">>, <<".", "a">>>>,
      <<<<"div">>, <<"div">>, <<"#", "x">>>> }

InitParser ==
    /\ FlowIdle
    /\ CategoriesIdle
    /\ CyclesIdle
    /\ CallsIdle
    /\ HealIdle
    /\ parser = Some(NewParser)
    /\ open_tags = Some(<< >>)
    /\ selected = None

\* The open elements after an end tag.
Closed(open, tag) ==
    IF open # None /\ open[1] # << >> /\ open[1][Len(open[1])] = tag
    THEN Some(SubSeq(open[1], 1, Len(open[1]) - 1))
    ELSE None

Opened(open, tag) == IF open = None THEN None ELSE Some(Append(open[1], tag))

FeedStartTag ==
    /\ selected = None
    /\ Len(parser[1].nodes) <= MaxElements
    /\ \E event \in StartTags :
           /\ parser' = Some(Feed(parser[1], event))
           /\ open_tags' = Opened(open_tags, event.tag)
    /\ UNCHANGED <<flowVars, categoryVars, cycleVars, callVars, healVars, selected>>

FeedEndTag ==
    /\ selected = None
    /\ \E tag \in ElementTags :
           /\ parser' = Some(Feed(parser[1], EndTag(tag)))
           /\ open_tags' = Closed(open_tags, tag)
    /\ UNCHANGED <<flowVars, categoryVars, cycleVars, callVars, healVars, selected>>

\* Text directly after a start tag, or before the first one.
FeedData ==
    /\ selected = None
    /\ parser[1].current = Len(parser[1].nodes)
    /\ parser[1].nodes[parser[1].current].text = << >>
    /\ \E text \in TextData :
           parser' = Some(Feed(parser[1], Data(text)))
    /\ UNCHANGED <<flowVars, categoryVars, cycleVars, callVars, healVars,
                   open_tags, selected>>

\* parse_html returns parser.root once the whole markup is fed;
\* select_first is then called on it.
Select ==
    /\ selected = None
    /\ \E selector \in Selectors :
           selected' = Some([selector |-> selector,
                             node |-> select_first(parser[1].nodes, selector)])
    /\ UNCHANGED <<flowVars, categoryVars, cycleVars, callVars, healVars,
                   parser, open_tags>>

NextParser ==
    \/ FeedStartTag
    \/ FeedEndTag
    \/ FeedData
    \/ Select

SpecParser == InitParser /\ [][NextParser]_vars

(***************************************************************************)
(* Properties                                                              *)
(***************************************************************************)

\* The first extraction of try_scrape returned records.
FirstAttemptSucceeded ==
    /\ InFlow
    /\ first_error = None
    /\ parsed # None
    /\ ~parsed[1].out.raised

\* C1: when the first extraction attempt of try_scrape succeeds, the call
\* returns the records with exactly the RuleSet it was given, no repair step
\* is run and scrape_products_with_self_heal does not invoke save_rules.
C1_FirstSuccessKeepsRules ==
    FirstAttemptSucceeded =>
        /\ returned = Some([items |-> parsed[1].out.value, rules |-> rules])
        /\ parsed[1].rules = rules
        /\ nParse = 1
        /\ nRepair = 0
        /\ oracle = None
        /\ new_rules = None
        /\ saved = << >>
        /\ pc \in {"finish", "done"}
        /\ pc = "done" => result = Some(Return(returned[1]))

C1_Witness ==
    /\ FirstAttemptSucceeded
    /\ pc = "done"
    /\ has_save
    /\ DOMAIN rules # Fields

\* The retried extraction of try_scrape raised.
RetryFailed ==
    /\ InFlow
    /\ nRepair = 1
    /\ parsed # None
    /\ parsed[1].out.raised

\* C2: a call of try_scrape performs at most one rule repair, at most two
\* extraction attempts and at most two page fetches; a failure of the
\* retried extraction is raised to the caller as ScraperError and nothing
\* happens after it.
C2_BoundedSelfHeal ==
    InFlow =>
        /\ nRepair <= 1
        /\ nParse <= 2
        /\ nFetch <= 2
        /\ attempt <= 2
        /\ nRepair = 1 => nFetch = 2
        /\ RetryFailed =>
             /\ pc = "done"
             /\ nParse <= 2
             /\ result = Some(parsed[1].out)
             /\ result[1].exc = "ScraperError"
             /\ returned = None
             /\ ~ENABLED Next

C2_Witness ==
    /\ RetryFailed
    /\ pc = "done"
    /\ nParse = 2
    /\ nFetch = 2

\* The first extraction failed and the retried extraction returned records.
RetrySucceeded ==
    /\ InFlow
    /\ first_error # None
    /\ nRepair = 1
    /\ parsed # None
    /\ ~parsed[1].out.raised

\* C3: when the first extraction fails and the retry with the repaired
\* RuleSet succeeds, try_scrape returns the retry's records with the
\* repaired RuleSet, and save_rules, when supplied, is invoked exactly once
\* with the repaired RuleSet completed with defaults whenever that RuleSet
\* differs from the one passed in (and not at all otherwise).
C3_RepairedRulesReturnedAndSaved ==
    RetrySucceeded =>
        /\ parsed[1].rules = new_rules[1]
        /\ parsed[1].html = html[1]
        /\ returned = Some([items |-> parsed[1].out.value, rules |-> new_rules[1]])
        /\ pc \in {"finish", "done"}
        /\ pc = "finish" => saved = << >>
        /\ pc = "done" =>
             /\ result = Some(Return(returned[1]))
             /\ IF has_save /\ new_rules[1] # rules
                THEN /\ Len(saved) = 1
                     /\ DOMAIN saved[1] = Fields
                     /\ \A f \in Fields :
                          saved[1][f] = IF f \in DOMAIN new_rules[1]
                                        THEN new_rules[1][f]
                                        ELSE DEFAULT_RULES[f]
                ELSE saved = << >>

C3_Witness ==
    /\ RetrySucceeded
    /\ pc = "done"
    /\ Len(saved) = 1
    /\ parsed[1].out.value # << >>

\* The selector of field f of the previous RuleSet still matches a node of
\* the re-fetched page.
StillMatches(f) ==
    /\ f \in DOMAIN rules
    /\ rules[f] # << >>
    /\ ~HasInvalid(rules[f])
    /\ \E i \in 1..Len(Flatten(html[1].nodes)) :
         MatchesAny(Flatten(html[1].nodes)[i], rules[f])

\* C4: fix_rules never discards a field that still matches: every field of
\* the previous RuleSet whose selector still matches a node of the
\* re-fetched page has the same selector in the repaired RuleSet.
C4_RepairKeepsMatchingFields ==
    (InFlow /\ pc = "retry") =>
        \A f \in Fields : StillMatches(f) => new_rules[1][f] = rules[f]

\* The oracle answered with a JSON object holding at least one known key.
OracleUsable(outcome) ==
    /\ outcome.client
    /\ outcome.call
    /\ outcome.json
    /\ outcome.type = "object"
    /\ (DOMAIN outcome.members) \cap Fields # {}

\* C5: the oracle's output is used only when it is a non-empty JSON object,
\* restricted to the five known keys; output that is not valid JSON, not an
\* object or empty is discarded and the repair result is the heuristic
\* RuleSet.
C5_OracleOutputValidated ==
    (InFlow /\ pc = "retry") =>
        IF OracleUsable(oracle[1])
        THEN /\ DOMAIN new_rules[1] = Fields
             /\ \A f \in Fields :
                  new_rules[1][f] = IF f \in DOMAIN oracle[1].members
                                    THEN oracle[1].members[f]
                                    ELSE DEFAULT_RULES[f]
        ELSE new_rules[1] = heuristic_rules(html[1], rules)

\* The oracle client is unavailable, the oracle call raises, or the response
\* is not a JSON object.
OracleFailed(outcome) ==
    \/ ~outcome.client
    \/ ~outcome.call
    \/ ~outcome.json
    \/ outcome.type # "object"

ContainerSelector(used_rules) ==
    DictGetOr(used_rules, "product_item", DEFAULT_RULES.product_item)

\* No node of the page matches the selector.
MatchesNothing(page, selector) ==
    /\ ~HasInvalid(selector)
    /\ \A i \in 1..Len(Flatten(page.nodes)) :
         ~MatchesAny(Flatten(page.nodes)[i], selector)

\* C7: parse_products on a page where the container selector matches zero
\* nodes raises ScraperError (NoContainerMatch), and parse_products never
\* returns an empty list.
C7_NoContainerMatchRaises ==
    parsed # None =>
        /\ MatchesNothing(parsed[1].html, ContainerSelector(parsed[1].rules))
             => parsed[1].out = Raise("ScraperError", "NoContainerMatch")
        /\ ~parsed[1].out.raised => parsed[1].out.value # << >>

C7_Witness ==
    /\ parsed # None
    /\ parsed[1].html.nodes # << >>
    /\ MatchesNothing(parsed[1].html, ContainerSelector(parsed[1].rules))
    /\ parsed[1].out.raised

\* The containers of a parse_products call and the name resolved for each.
Containers(call) == Css(call.html, ContainerSelector(call.rules))

ResolvedNames(call) ==
    [i \in 1..Len(Containers(call)) |->
        GetFirstText(Containers(call)[i],
                     DictGetOr(call.rules, "name_selector", DEFAULT_RULES.name_selector))]

NonBlank(text) == \E i \in 1..Len(text) : text[i] \notin Whitespace

\* C8: every record returned by parse_products has a name that is non-empty
\* after trimming; containers whose resolved name is empty are skipped, the
\* records keep the document order of their containers, and when every
\* matched container yields an empty name the call raises (EmptyResult).
C8_RecordsHaveNames ==
    parsed # None =>
        /\ ~parsed[1].out.raised =>
             /\ \A k \in 1..Len(parsed[1].out.value) :
                  NonBlank(parsed[1].out.value[k].name)
             /\ [k \in 1..Len(parsed[1].out.value) |-> parsed[1].out.value[k].name]
                  = [k \in 1..Len(SelectSeq(ResolvedNames(parsed[1]),
                                            LAMBDA n : n.value # << >>)) |->
                       SelectSeq(ResolvedNames(parsed[1]),
                                 LAMBDA n : n.value # << >>)[k].value]
        /\ ( /\ ~HasInvalid(ContainerSelector(parsed[1].rules))
             /\ Containers(parsed[1]) # << >>
             /\ \A i \in 1..Len(Containers(parsed[1])) :
                  /\ ~ResolvedNames(parsed[1])[i].raised
                  /\ ~NonBlank(ResolvedNames(parsed[1])[i].value) )
           => parsed[1].out = Raise("ScraperError", "EmptyResult")

C8_Witness ==
    /\ parsed # None
    /\ ~parsed[1].out.raised
    /\ Len(parsed[1].out.value) = 2
    /\ Len(Containers(parsed[1])) = 4
    /\ \E i \in 1..4 : Containers(parsed[1])[i].kids[1].text = <<" ">>
    /\ parsed[1].out.value[1].name = <<"B">>
    /\ parsed[1].out.value[2].name = <<"D">>

\* The notes that hold a bot-challenge marker in some letter case.
ChallengeNotes ==
    { <<"C", "A", "P", "T", "C", "H", "A">>,
      <<"x", "c", "a", "p", "t", "c", "h", "a", "x">>,
      <<"C", "l", "o", "u", "d", "f", "l", "a", "r", "e">>,
      <<"A", "r", "e", " ", "Y", "o", "u", " ", "H", "u", "m", "a", "n">> }

\* The response has a blocking status or is a challenge page.
Blocked(response) ==
    /\ response.kind = "response"
    /\ \/ response.status \in {403, 429, 503}
       \/ response.body.note \in ChallengeNotes

\* The latest fetch_html call has returned its text, and nothing ran since.
FetchReturned ==
    /\ attempt >= 1
    /\ html # None
    /\ pc \in {"fetched1", "fetched2", "done"}

\* The latest fetch_html call has raised, and nothing but the propagation of
\* its error ran since.
FetchRaised ==
    /\ attempt >= 1
    /\ html = None
    /\ pc \in {"failed1", "failed2", "done"}

\* C9: fetch_html never returns markup when the response status is 403, 429
\* or 503 or when the body contains a bot-challenge marker in any letter
\* case; if every attempt's response is blocked or a challenge page the call
\* fails with ScraperError (FetchBlocked) after the retry.
C9_BlockedNeverReturned ==
    /\ FetchReturned =>
         /\ ~Blocked(responses[attempt])
         /\ html = Some(responses[attempt].body)
         /\ (op = "fetch_html" /\ pc = "done") => result = Some(Return(responses[attempt].body))
    /\ (attempt >= 1 /\ \A i \in 1..attempt : Blocked(responses[i])) =>
         /\ html = None
         /\ attempt < 2 => pc \in {"fetch1", "fetch2"}
         /\ attempt = 2 =>
              /\ FetchRaised
              /\ FetchFailure = Raise("ScraperError", "FetchBlocked")
              /\ pc = "done" => result = Some(FetchFailure)

C9_Witness ==
    /\ op = "fetch_html"
    /\ pc = "done"
    /\ attempt = 2
    /\ responses[1].status = 200
    /\ responses[1].body.note = <<"C", "A", "P", "T", "C", "H", "A">>
    /\ responses[2].status = 429
    /\ result[1].raised

\* The response is one fetch_html returns the text of.
Acceptable(response) ==
    /\ response.kind = "response"
    /\ response.status = 200
    /\ ~Blocked(response)

\* C10: fetch_html issues at most two requests per call whatever the failure
\* kind; it returns on the first attempt that yields acceptable markup and
\* otherwise fails after the second attempt.
C10_AtMostTwoRequests ==
    /\ attempt <= 2
    /\ Len(responses) = attempt
    /\ \A i \in 1..attempt : Acceptable(responses[i]) => (i = attempt /\ FetchReturned)
    /\ FetchReturned => (attempt >= 1 /\ Acceptable(responses[attempt]))
    /\ FetchRaised => (attempt = 2 /\ \A i \in 1..2 : ~Acceptable(responses[i]))
    /\ (FetchReturned \/ FetchRaised) => ~ENABLED Request
    /\ (pc \in {"fetch1", "fetch2"} /\ attempt >= 1) =>
         (attempt = 1 /\ ~Acceptable(responses[1]) /\ ENABLED Request)

C10_Witness ==
    /\ op = "fetch_html"
    /\ pc = "done"
    /\ attempt = 2
    /\ responses[1].kind = "exception"
    /\ responses[2].status = 500
    /\ result[1].raised

(***************************************************************************)
(* scrape_multiple_categories                                              *)
(***************************************************************************)

\* The task failed: fetch_html or parse_products raised in it.
TaskFailed(task) ==
    \/ task.html = None
    \/ parse_products(task.html[1], task.url, shared_rules).raised

\* Why the task failed.
FailureReason(task) ==
    IF task.html = None THEN task.last_error[1]
    ELSE parse_products(task.html[1], task.url, shared_rules).why

\* The records of the task's own page, none for a failed task.
OwnRecords(task) ==
    IF TaskFailed(task) THEN << >>
    ELSE parse_products(task.html[1], task.url, shared_rules).value

\* The task is the last one for its URL.
LastForUrl(i) == \A j \in (i + 1)..Len(tasks) : tasks[j].url # tasks[i].url

\* C11: scrape_multiple_categories returns (no failure of a task makes it
\* raise) only after every task has finished; the result has exactly the
\* requested URLs as keys; each URL maps to the records of its own page,
\* whatever happened to the other tasks and in whatever order the tasks ran,
\* and to the empty list when its fetch or its extraction failed (for a URL
\* listed twice, the outcome of its last task).
C11_SiblingsUnaffected ==
    gathered # None =>
        /\ ~gathered[1].raised
        /\ \A i \in 1..Len(tasks) : tasks[i].pc = "done"
        /\ DOMAIN gathered[1].value = {category_urls[i] : i \in 1..Len(category_urls)}
        /\ \A i \in 1..Len(tasks) :
             LastForUrl(i) => gathered[1].value[tasks[i].url] = OwnRecords(tasks[i])

\* One category failed at the fetch, one at the extraction and one
\* succeeded, and the call has returned.
C11_Witness ==
    /\ gathered # None
    /\ \E i, j, k \in 1..Len(tasks) :
         /\ tasks[i].html = None
         /\ tasks[j].html # None /\ TaskFailed(tasks[j])
         /\ ~TaskFailed(tasks[k]) /\ LastForUrl(k)
         /\ gathered[1].value[tasks[k].url] # << >>

\* C12: the result of scrape_multiple_categories tells why a category
\* failed: two categories that failed for different reasons have different
\* entries in the result.
C12_FailureReasonRetained ==
    (gathered # None /\ ~gathered[1].raised) =>
        \A i, j \in 1..Len(tasks) :
            ( /\ LastForUrl(i) /\ LastForUrl(j)
              /\ TaskFailed(tasks[i]) /\ TaskFailed(tasks[j])
              /\ FailureReason(tasks[i]) # FailureReason(tasks[j]) )
            => gathered[1].value[tasks[i].url] # gathered[1].value[tasks[j].url]

(***************************************************************************)
(* Concurrent cycles                                                       *)
(***************************************************************************)

\* The RuleSet the cycle passed to save_rules.
PayloadOf(cycle) == SavedRules(cycle.returned[1].rules)

\* C13: a cycle that ended in failure has not called save_rules, a cycle
\* calls it at most once, and once any cycle has saved, the stored RuleSet
\* is the complete five-field RuleSet that the last writer passed to
\* save_rules, however the cycles interleave.
C13_LastWriterWins ==
    /\ \A i \in 1..Len(cycles) :
         (cycles[i].result # None /\ cycles[i].result[1].raised)
             => \A w \in 1..Len(writers) : writers[w] # i
    /\ \A v, w \in 1..Len(writers) : writers[v] = writers[w] => v = w
    /\ writers # << >> =>
         /\ cycles[writers[Len(writers)]].pc = "done"
         /\ persisted[1] = PayloadOf(cycles[writers[Len(writers)]])
         /\ DOMAIN persisted[1] = Fields

\* Two cycles repaired the rules in different ways and both saved; the
\* RuleSets they saved agree in some fields and differ in others.
C13_Witness ==
    /\ Len(writers) = 2
    /\ PayloadOf(cycles[writers[1]]) # PayloadOf(cycles[writers[2]])
    /\ \E f \in Fields : PayloadOf(cycles[writers[1]])[f] = persisted[1][f]
    /\ \E f \in Fields : PayloadOf(cycles[writers[1]])[f] # persisted[1][f]

(***************************************************************************)
(* self_heal_algorithm: confidence                                         *)
(***************************************************************************)

\* C14: after one or more successive repairs, whatever confidence was
\* stored at first (also none, or one outside the range), the confidence of
\* the resulting meta is present and lies in [0.3, 1.0] (30..100 hundredths).
C14_ConfidenceInRange ==
    heals > 0 =>
        /\ algo[1].meta.confidence # None
        /\ algo[1].meta.confidence[1] >= 30
        /\ algo[1].meta.confidence[1] <= 100

\* Successive repairs have brought the confidence down to the floor, and a
\* further repair that resolved every field has left it there.
C14_Witness ==
    /\ heals = MaxHeals
    /\ healed_from[1].algo.meta.confidence = Some(30)
    /\ algo[1].meta.warnings = {}
    /\ algo[1].meta.confidence = Some(30)

\* The number of fields a repair leaves unresolved.
Unresolved(healed) == Cardinality(healed.meta.warnings)

\* C15: compared with any other repair of the same previous algorithm (the
\* same previous confidence), the repair just made yields no higher
\* confidence when it leaves more fields unresolved, and no lower
\* confidence when it leaves fewer unresolved.
C15_ConfidenceNonIncreasingInUnresolved ==
    heals > 0 =>
        \A page \in Markups :
            /\ Unresolved(algo[1]) > Unresolved(self_heal_algorithm(page, healed_from[1].algo))
               => algo[1].meta.confidence[1]
                      <= self_heal_algorithm(page, healed_from[1].algo).meta.confidence[1]
            /\ Unresolved(algo[1]) < Unresolved(self_heal_algorithm(page, healed_from[1].algo))
               => algo[1].meta.confidence[1]
                      >= self_heal_algorithm(page, healed_from[1].algo).meta.confidence[1]

(***************************************************************************)
(* Product matching                                                        *)
(***************************************************************************)

Calling(fn) == called # None /\ called[1].fn = fn

Arg(i) == called[1].args[i]

InUnitRange(x) == x.den > 0 /\ 0 <= x.num /\ x.num <= x.den

\* C16: the token similarity of parserai.core does not depend on the order
\* of its two arguments, and its value lies in [0, 1].
C16_SimilaritySymmetricInUnitRange ==
    Calling("core._similarity") =>
        /\ FloatEq(ret[1], similarity(Arg(2), Arg(1)))
        /\ InUnitRange(ret[1])

\* Two different titles that share some tokens but not all.
C16_Witness ==
    /\ Calling("core._similarity")
    /\ Arg(1) # Arg(2)
    /\ 0 < ret[1].num
    /\ ret[1].num < ret[1].den
    /\ Len(Arg(1)) < Len(Arg(2))

\* C17: the similarity is 0 whenever either side is empty, in the token
\* similarity of parserai.core and in the sequence ratio of matcher_ai, and
\* _heuristic_match gives no positive confidence to a product with an empty
\* name.
C17_EmptySideGivesZero ==
    /\ Calling("core._similarity") /\ (Arg(1) = << >> \/ Arg(2) = << >>)
        => ret[1].num = 0
    /\ Calling("matcher_ai._similarity") /\ (Arg(1) = << >> \/ Arg(2) = << >>)
        => ret[1].num = 0
    /\ Calling("_heuristic_match")
        => \A i \in 1..Len(ret[1]) :
               ret[1][i].our_name = << >> => ret[1][i].confidence = 0

\* The similarities of the competitor title to the entries of the catalog
\* of a call of match_competitor_product, in catalog order.
EntrySimilarities ==
    [i \in 1..Len(Arg(2)) |-> similarity(Arg(1), Arg(2)[i].title)] \o << >>

\* Entry i is the first entry of maximal similarity.
FirstOfMaximal(sims, i) ==
    /\ \A k \in 1..Len(sims) : ~FloatLess(sims[i], sims[k])
    /\ \A k \in 1..(i - 1) : FloatLess(sims[k], sims[i])

\* our_id is None exactly when no entry has positive similarity; otherwise
\* it names the first entry of maximal similarity.
ReturnsBestEntry(sims) ==
    /\ ret[1].our_id = None <=> \A i \in 1..Len(sims) : sims[i].num = 0
    /\ ret[1].our_id # None =>
           \E i \in 1..Len(sims) :
               /\ ret[1].our_id = Some(Arg(2)[i].pid)
               /\ FirstOfMaximal(sims, i)

\* The confidence, in thousandths, is a thousandth nearest to the
\* similarity x.
NearestThousandth(confidence, x) ==
    /\ 2 * (1000 * x.num - confidence * x.den) <= x.den
    /\ 2 * (confidence * x.den - 1000 * x.num) <= x.den

InConfidenceRange(confidence) == 0 <= confidence /\ confidence <= 1000

\* Some token occurs in both titles.
SharesToken(a, b) == (DOMAIN tokenize(a)) \cap (DOMAIN tokenize(b)) # {}

PositiveWheneverTokenShared(sims) ==
    /\ ReturnsBestEntry(sims)
    /\ InConfidenceRange(ret[1].match_confidence)
    /\ (\E i \in 1..Len(sims) : SharesToken(Arg(1), Arg(2)[i].title))
           => ret[1].match_confidence > 0

\* C18 as stated: match_competitor_product returns the first entry of
\* maximal similarity with a confidence in [0, 1], our_id is None exactly
\* when no entry has positive similarity, and match_confidence is positive
\* whenever an entry shares a token with the title.
C18_PositiveWheneverTokenShared ==
    Calling("match_competitor_product") =>
        PositiveWheneverTokenShared(EntrySimilarities)

ConfidenceIsRoundedMaximum(sims) ==
    /\ ReturnsBestEntry(sims)
    /\ InConfidenceRange(ret[1].match_confidence)
    /\ \A i \in 1..Len(sims) :
           FirstOfMaximal(sims, i) =>
               /\ NearestThousandth(ret[1].match_confidence, sims[i])
               /\ 2000 * sims[i].num > sims[i].den => ret[1].match_confidence > 0
               /\ 2000 * sims[i].num < sims[i].den => ret[1].match_confidence = 0

\* C18, amended: match_competitor_product returns the first entry of
\* maximal similarity, our_id is None exactly when no entry has positive
\* similarity, and match_confidence is the maximal similarity rounded to
\* three decimals: it lies in [0, 1], it is positive when that similarity
\* is above 0.0005 and 0.0 when it is below, also when our_id is set.
C18_ConfidenceIsRoundedMaximum ==
    Calling("match_competitor_product") =>
        ConfidenceIsRoundedMaximum(EntrySimilarities)

TieWonByFirst(sims) ==
    /\ Len(sims) = 2
    /\ Arg(2)[1].title # Arg(2)[2].title
    /\ sims[1].num > 0
    /\ FloatEq(sims[1], sims[2])
    /\ ret[1].our_id = Some(Arg(2)[1].pid)
    /\ ret[1].match_confidence > 0

\* Two entries of the same positive similarity: the first one is returned,
\* with a positive confidence.
C18_Witness ==
    /\ Calling("match_competitor_product")
    /\ TieWonByFirst(EntrySimilarities)

(***************************************************************************)
(* Category grouping                                                       *)
(***************************************************************************)

\* The category is a node with this name and URL somewhere below the level.
RECURSIVE InTree(_, _, _)
InTree(level, name, url) ==
    \E i \in 1..Len(level) :
        \/ level[i].name = name /\ level[i].url = Some(url)
        \/ InTree(level[i].children, name, url)

\* The names of the groups of the result that hold the category.
GroupsHolding(groups, name, url) ==
    { groups[i].group_name : i \in { k \in 1..Len(groups) : InTree(groups[k].items, name, url) } }

\* The path of the first URL is that of the second one with a recognized
\* locale segment put in front.
DiffersByLeadingLocale(with, without) ==
    /\ with.host = without.host
    /\ \E locale \in {"ru", "ua", "uk"} :
           with.path = <<"", locale>> \o Tail(without.path)

\* The name a category has in the result of the called function.
PlacedName(name) ==
    IF called[1].fn = "build_category_groups" THEN StripName(name) ELSE name

\* Both categories of the call are held by the group of this name and by
\* no other group.
BothUnder(key) ==
    /\ GroupsHolding(ret[1], PlacedName(Arg(1)[1].name), Arg(1)[1].url) = {key}
    /\ GroupsHolding(ret[1], PlacedName(Arg(1)[2].name), Arg(1)[2].url) = {key}

GroupingCall ==
    /\ Calling("build_category_groups") \/ Calling("build_category_tree")
    /\ Len(Arg(1)) = 2
    /\ DiffersByLeadingLocale(Arg(1)[1].url, Arg(1)[2].url)

\* C19 as stated: two category URLs whose paths differ only by a leading
\* ru, ua or uk segment are placed under the same top-level group, whose
\* key is the first remaining path segment.
C19_SameGroupForLocalePrefix ==
    GroupingCall =>
        /\ PathParts(Arg(1)[2].url) # << >>
        /\ BothUnder(PathParts(Arg(1)[2].url)[1])

\* C19, amended: two categories (with non-empty names, for
\* build_category_groups) whose URL paths differ only by a leading ru, ua
\* or uk segment, and whose remaining path has a first segment that is not
\* itself ru, ua or uk, are placed under the same top-level group, whose
\* key is that first remaining segment.
C19_SameGroupUnlessLocaleFollows ==
    /\ GroupingCall
    /\ PathParts(Arg(1)[2].url) # << >>
    /\ PathParts(Arg(1)[2].url)[1] \notin {"ru", "ua", "uk"}
    /\ Calling("build_category_groups") =>
           StripName(Arg(1)[1].name) # "" /\ StripName(Arg(1)[2].name) # ""
    => BothUnder(PathParts(Arg(1)[2].url)[1])

\* /ua/tools/drills and /tools/drills are both placed under "tools".
C19_Witness ==
    /\ GroupingCall
    /\ Arg(1)[1].url.path = <<"", "ua", "tools", "drills">>
    /\ Arg(1)[2].url.path = <<"", "tools", "drills">>
    /\ BothUnder("tools")

(***************************************************************************)
(* parse_html and select_first                                             *)
(***************************************************************************)

\* The proper ancestors of a node.
RECURSIVE AncestorsOf(_, _)
AncestorsOf(nodes, n) ==
    IF nodes[n].parent = 0 THEN {}
    ELSE {nodes[n].parent} \cup AncestorsOf(nodes, nodes[n].parent)

\* Token k of the selector matches the node, and the tokens before it match
\* proper ancestors of the node, in order.
RECURSIVE ChainEndsAt(_, _, _, _)
ChainEndsAt(nodes, n, tokens, k) ==
    /\ matches_token(nodes[n], tokens[k])
    /\ k = 1 \/ \E a \in AncestorsOf(nodes, n) : ChainEndsAt(nodes, a, tokens, k - 1)

\* The nodes that satisfy the selector.
Satisfying(nodes, selector) ==
    IF selector = << >> THEN {}
    ELSE { n \in 1..Len(nodes) : ChainEndsAt(nodes, n, selector, Len(selector)) }

\* Every element of the markup was closed by an end tag of its own.
WellFormed == open_tags = Some(<< >>)

\* C20: on the tree parsed from well-formed markup, select_first returns
\* the node that satisfies the selector when exactly one node does, and
\* returns no node only when no node satisfies the selector.
C20_SelectFirstFindsTheNode ==
    selected # None /\ WellFormed =>
        /\ \A n \in 1..Len(parser[1].nodes) :
               Satisfying(parser[1].nodes, selected[1].selector) = {n}
                   => selected[1].node = Some(n)
        /\ selected[1].node = None
               => Satisfying(parser[1].nodes, selected[1].selector) = {}

\* The one node that satisfies a chain of two tokens is returned although
\* an earlier node matches the last token.
C20_Witness ==
    /\ selected # None
    /\ WellFormed
    /\ Len(selected[1].selector) = 2
    /\ selected[1].node # None
    /\ Satisfying(parser[1].nodes, selected[1].selector) = {selected[1].node[1]}
    /\ \E n \in 1..(selected[1].node[1] - 1) :
           matches_token(parser[1].nodes[n], selected[1].selector[2])

(***************************************************************************)
(* Prices of the records of parse_products                                 *)
(***************************************************************************)

DigitValue(ch) ==
    CASE ch = "0" -> 0 [] ch = "1" -> 1 [] ch = "2" -> 2 [] ch = "3" -> 3
      [] ch = "4" -> 4 [] ch = "5" -> 5 [] ch = "6" -> 6 [] ch = "7" -> 7
      [] ch = "8" -> 8 [] OTHER -> 9

RECURSIVE NumberOf(_)
NumberOf(digits) ==
    IF digits = <<>> THEN 0
    ELSE 10 * NumberOf(SubSeq(digits, 1, Len(digits) - 1)) + DigitValue(digits[Len(digits)])

\* The value of a price in hundredths (the modelled prices have at most two
\* fraction digits).
Cents(price) ==
    IF price = None THEN None
    ELSE Some(100 * NumberOf(price[1].whole)
              + NumberOf(SubSeq(price[1].frac \o <<"0", "0">>, 1, 2)))

\* The number, in hundredths, that each trimmed price text of the cards
\* denotes once only digits, commas and periods are kept and a comma is read
\* as the decimal separator; None where that is not a number.
ExpectedCents(text) ==
    CASE text = ScenarioPrice              -> Some(129900)
      [] text = <<"1", "2", ".", "5">>     -> Some(1250)
      [] text = <<"7">>                    -> Some(700)
      [] text = <<"5">>                    -> Some(500)
      [] OTHER                             -> None

CardsOf(call) == call.args[1]

\* The cards with a name, in page order.
NamedCards(cards) == SelectSeq(cards, LAMBDA c : c.name # <<>>)

\* The trimmed texts of the two price elements of a card.
CardPriceTexts(card) == {Strip(card.price), Strip(card.alt)}

PriceOfRecord(record, card) ==
    /\ record.name = card.name
    /\ \E text \in CardPriceTexts(card) :
           /\ record.raw_price = (IF text = <<>> THEN None ELSE Some(text))
           /\ Cents(record.price) = ExpectedCents(text)

\* C21: parse_products emits one record for every container with a
\* non-empty name, whether or not its price text is a number; the record's
\* price is the number read from the price text (digits, commas and periods
\* kept, comma as decimal point) or None, and raw_price is the price text.
C21_UnparsablePriceKeepsRecord ==
    (Calling("parse_products") /\ NamedCards(CardsOf(called[1])) # <<>>) =>
        /\ ~ret[1].raised
        /\ Len(ret[1].value) = Len(NamedCards(CardsOf(called[1])))
        /\ \A k \in 1..Len(ret[1].value) :
               PriceOfRecord(ret[1].value[k], NamedCards(CardsOf(called[1]))[k])

\* A page with a named card whose price text "1.299,00" is not a number and
\* a card with the price text "1 299,00 uah".
C21_Witness ==
    /\ Calling("parse_products")
    /\ ~ret[1].raised
    /\ \E k \in 1..Len(ret[1].value) :
           /\ ret[1].value[k].price = None
           /\ ret[1].value[k].raw_price = Some(<<"1", ".", "2", "9", "9", ",", "0", "0">>)
    /\ \E k \in 1..Len(ret[1].value) :
           /\ Cents(ret[1].value[k].price) = Some(129900)
           /\ ret[1].value[k].raw_price = Some(ScenarioPrice)

\* The text of the card's element that a price alternative selects.
AlternativeText(card, sel) ==
    CASE sel = ".price"         -> card.price
      [] sel = ".product-price" -> card.alt
      [] OTHER                  -> <<>>

\* The trimmed text of the first alternative, in order, whose trimmed text
\* is not empty; the empty text when there is none.
RECURSIVE FirstNonEmptyText(_, _)
FirstNonEmptyText(card, selectors) ==
    IF selectors = <<>> THEN <<>>
    ELSE IF Strip(AlternativeText(card, Head(selectors))) # <<>>
         THEN Strip(AlternativeText(card, Head(selectors)))
    ELSE FirstNonEmptyText(card, Tail(selectors))

\* C28: the alternatives of the price selector are tried in order and the
\* first one whose text is non-empty after trimming supplies the value: an
\* earlier alternative with empty or whitespace-only text gives way to a
\* later alternative with non-empty text in the same container.
C28_FirstNonEmptyAlternativeWins ==
    (Calling("parse_products") /\ ~ret[1].raised) =>
        \A k \in 1..Len(ret[1].value) :
            LET text == FirstNonEmptyText(NamedCards(CardsOf(called[1]))[k],
                                          Arg(2).price_selector)
            IN  ret[1].value[k].raw_price = (IF text = <<>> THEN None ELSE Some(text))

\* C22: self_heal_algorithm keeps every selector of the previous algorithm
\* that still matches a node of the page, replaces every selector that
\* matches no node by the best selector found for its field, and leaves the
\* previous algorithm as it was.
C22_HealChangesOnlyBrokenSelectors ==
    healed_from # None =>
        /\ DOMAIN algo[1].selectors = DOMAIN healed_from[1].algo.selectors
        /\ \A key \in DOMAIN healed_from[1].algo.selectors :
               algo[1].selectors[key] =
                   (IF Satisfying(parse_html(healed_from[1].page),
                                  healed_from[1].algo.selectors[key]) # {}
                    THEN healed_from[1].algo.selectors[key]
                    ELSE find_best_selector(parse_html(healed_from[1].page), key))
        /\ healed_from[1].previous = healed_from[1].algo

\* A repair that keeps a selector that still matches and replaces another
\* one by a different selector.
C22_Witness ==
    /\ healed_from # None
    /\ \E key \in DOMAIN algo[1].selectors :
           /\ Satisfying(parse_html(healed_from[1].page),
                         healed_from[1].algo.selectors[key]) # {}
           /\ algo[1].selectors[key] = healed_from[1].algo.selectors[key]
    /\ \E key \in DOMAIN algo[1].selectors :
           /\ algo[1].selectors[key] # healed_from[1].algo.selectors[key]
           /\ algo[1].selectors[key] # << >>

\* The elements of the tree, in preorder: a node is created when its start
\* tag is read.
ElementsOf(nodes) == {n \in 1..Len(nodes) : nodes[n].tag # "document"}

\* The first element in preorder whose score for the field is the highest
\* and above the given floor; 0 when no element scores above the floor.
FirstHighest(nodes, field, floor) ==
    LET candidates == {n \in ElementsOf(nodes) :
                          /\ FieldScore(nodes, n, field) > floor
                          /\ \A o \in ElementsOf(nodes) :
                                 FieldScore(nodes, o, field) <= FieldScore(nodes, n, field)}
    IN  IF candidates = {} THEN 0
        ELSE CHOOSE n \in candidates : \A o \in candidates : n <= o

\* The selector of the first highest-scoring element, the empty selector
\* when there is none above the floor.
ExpectedBest(nodes, field, floor) ==
    IF FirstHighest(nodes, field, floor) = 0 THEN << >>
    ELSE <<TokenOf(nodes[FirstHighest(nodes, field, floor)])>>

\* The fields whose selector the repair replaced.
Replaced == {key \in DOMAIN healed_from[1].algo.selectors :
                 Satisfying(parse_html(healed_from[1].page),
                            healed_from[1].algo.selectors[key]) = {}}

\* C27: the best selector of a field is the token of the highest-scoring
\* node, the first in preorder among ties, and is empty when no node scores
\* above zero, so that the field is among the warnings of the repair.
C27_BestSelectorEmptyWithoutHint ==
    healed_from # None =>
        \A key \in Replaced :
            /\ algo[1].selectors[key] = ExpectedBest(parse_html(healed_from[1].page), key, 0)
            /\ key \in algo[1].meta.warnings
                   <=> FirstHighest(parse_html(healed_from[1].page), key, 0) = 0

\* The first visited element is the best so far whatever its score, so an
\* element with score zero is a candidate: the selector is the token of the
\* first highest-scoring element, and is empty only without any element.
C27_BestSelectorOfAnyScore ==
    healed_from # None =>
        \A key \in Replaced :
            algo[1].selectors[key] = ExpectedBest(parse_html(healed_from[1].page), key, -1)

\* The product cards of a page.
CardsOn(page) ==
    SelectSeq(page.nodes, LAMBDA n : n.classes \cap {"product-card", "item"} # {})

\* A card whose name element, its first child, has a name.
HasName(card) == Strip(card.kids[1].text) # << >>

\* try_scrape ended after its first extraction found no container with the
\* deliberately wrong container selector, and the page fetched again holds
\* the given number of product cards, each with a name.
WrongContainerRun(counts) ==
    /\ InFlow
    /\ pc = "done"
    /\ Fields \subseteq DOMAIN rules
    /\ rules.product_item = <<".old-card">>
    /\ first_error = Some(Raise("ScraperError", "NoContainerMatch"))
    /\ html # None
    /\ Len(CardsOn(html[1])) \in counts
    /\ \A i \in 1..Len(CardsOn(html[1])) : HasName(CardsOn(html[1])[i])

\* The repair replaced the container selector and the retry returned records.
RepairedAndSucceeded ==
    /\ nRepair = 1
    /\ new_rules # None
    /\ new_rules[1].product_item # rules.product_item
    /\ result # None
    /\ ~result[1].raised

\* C23: on a page with product containers, one or more, a RuleSet whose
\* container selector matches nothing triggers the repair, the repaired
\* container selector differs from the original one and the retried
\* extraction succeeds.
C23_WrongContainerIsRepaired ==
    WrongContainerRun(1..MaxItems) => RepairedAndSucceeded

\* Without an oracle, a page of more than three product-card containers
\* whose names are h2 elements is repaired.
C23_ManyContainersAreRepaired ==
    (/\ WrongContainerRun(4..MaxItems)
     /\ ~oracle[1].client
     /\ "product-card" \in CardsOn(html[1])[1].classes
     /\ CardsOn(html[1])[1].kids[1].tag = "h2") => RepairedAndSucceeded

(***************************************************************************)
(* The tree of SimpleHTMLParser                                            *)
(***************************************************************************)

\* How often a node occurs in a children list.
Occurrences(list, n) == Cardinality({i \in 1..Len(list) : list[i] = n})

\* The parent chain of a node reaches the root within the given number of
\* steps.
RECURSIVE ReachesRoot(_, _, _)
ReachesRoot(nodes, n, steps) ==
    \/ n = 1
    \/ /\ steps > 0
       /\ nodes[n].parent \in 1..Len(nodes)
       /\ ReachesRoot(nodes, nodes[n].parent, steps - 1)

\* Every node but the root has one parent, occurs once in the children list
\* of that parent and in no other list, and its parent chain ends at the
\* root; the current node is a node of the tree.
TreeWellFormed(p) ==
    /\ p.current \in 1..Len(p.nodes)
    /\ Len(p.children) = Len(p.nodes)
    /\ p.nodes[1].parent = 0
    /\ \A n \in 2..Len(p.nodes) :
           /\ p.nodes[n].parent \in 1..Len(p.nodes)
           /\ \A m \in 1..Len(p.nodes) :
                  Occurrences(p.children[m], n) = (IF m = p.nodes[n].parent THEN 1 ELSE 0)
           /\ ReachesRoot(p.nodes, n, Len(p.nodes))
    /\ \A m \in 1..Len(p.nodes) :
           /\ Occurrences(p.children[m], 1) = 0
           /\ p.children[m] = Children(p.nodes, m)

\* An end tag read while the current node is the root leaves it there and
\* changes nothing else.
CloseAtRootStays(p) ==
    p.current = 1 => \A tag \in ElementTags : Feed(p, EndTag(tag)) = p

\* C24: after any sequence of start-tag, end-tag and text events the tree
\* of the parser is well formed: every node but the root has exactly one
\* parent and occurs exactly once in that parent's children, the tree has
\* no cycle, the current node is a node of the tree, and an end tag at the
\* root leaves the current node at the root.
C24_TreeStaysWellFormed ==
    parser # None => (TreeWellFormed(parser[1]) /\ CloseAtRootStays(parser[1]))

\* A tree with nested elements, built from markup with an end tag that
\* closed no element, whose current node is the root again.
C24_Witness ==
    /\ parser # None
    /\ open_tags = None
    /\ parser[1].current = 1
    /\ \E n \in 2..Len(parser[1].nodes) : parser[1].nodes[n].parent # 1
    /\ Len(parser[1].children[1]) >= 2

(***************************************************************************)
(* Unmatched end tags                                                      *)
(***************************************************************************)

\* The markup without its unmatched end tags: an end tag is matched when an
\* element is open and the innermost open element has its tag name.  open
\* holds the tag names of the open elements.
RECURSIVE WithoutUnmatchedEndTags(_, _)
WithoutUnmatchedEndTags(markup, open) ==
    IF markup = << >> THEN << >>
    ELSE IF Head(markup).kind = "start"
         THEN <<Head(markup)>>
              \o WithoutUnmatchedEndTags(Tail(markup), Append(open, Head(markup).tag))
    ELSE IF Head(markup).kind = "data"
         THEN <<Head(markup)>> \o WithoutUnmatchedEndTags(Tail(markup), open)
    ELSE IF open # << >> /\ open[Len(open)] = Head(markup).tag
         THEN <<Head(markup)>>
              \o WithoutUnmatchedEndTags(Tail(markup), SubSeq(open, 1, Len(open) - 1))
    ELSE WithoutUnmatchedEndTags(Tail(markup), open)

\* The markup without its end tags that have no open element at all.
RECURSIVE WithoutEndTagsAtRoot(_, _)
WithoutEndTagsAtRoot(markup, depth) ==
    IF markup = << >> THEN << >>
    ELSE IF Head(markup).kind = "start"
         THEN <<Head(markup)>> \o WithoutEndTagsAtRoot(Tail(markup), depth + 1)
    ELSE IF Head(markup).kind = "data"
         THEN <<Head(markup)>> \o WithoutEndTagsAtRoot(Tail(markup), depth)
    ELSE IF depth > 0
         THEN <<Head(markup)>> \o WithoutEndTagsAtRoot(Tail(markup), depth - 1)
    ELSE WithoutEndTagsAtRoot(Tail(markup), depth)

TreeOf(markup) ==
    [nodes    |-> FeedAll(NewParser, markup).nodes,
     children |-> FeedAll(NewParser, markup).children]

\* C25: an unmatched end tag, one whose tag name differs from the open
\* element or that has no open element, is a no-op: the tree of the markup
\* is the tree of the markup without its unmatched end tags (elements left
\* open are closed by the end of the input).
C25_UnmatchedEndTagIsNoOp ==
    Calling("parse_html") =>
        ret[1] = TreeOf(WithoutUnmatchedEndTags(Arg(1), << >>))

\* An end tag with no open element is a no-op; an end tag closes the
\* innermost open element whatever its tag name.
C25_EndTagWithoutOpenElementIsNoOp ==
    Calling("parse_html") =>
        ret[1] = TreeOf(WithoutEndTagsAtRoot(Arg(1), 0))

\* The first node in preorder among the given nodes: a node is created when
\* its start tag is read, so the order of creation is the preorder.
FirstInPreorder(candidates) == CHOOSE n \in candidates : \A o \in candidates : n <= o

\* C26: when several nodes satisfy a selector, select_first returns the one
\* that comes first in preorder: no node satisfying the selector precedes
\* the returned node in document order.
C26_SelectFirstIsFirstInPreorder ==
    (selected # None /\ Satisfying(parser[1].nodes, selected[1].selector) # {}) =>
        selected[1].node
            = Some(FirstInPreorder(Satisfying(parser[1].nodes, selected[1].selector)))

\* The failures of the extraction itself.
ExtractionFailures == {"NoContainerMatch", "EmptyResult", "InvalidSelector"}

\* C29: only a failure of the extraction (NoContainerMatch, EmptyResult,
\* InvalidSelector) makes try_scrape fetch the page again and repair the
\* rules; a first fetch that fails with FetchBlocked is raised to the caller
\* without a further fetch and without a repair.
C29_FetchBlockedIsNotRepaired ==
    InFlow =>
        /\ first_error # None => first_error[1].why \in ExtractionFailures
        /\ nFetch > 1 => (first_error # None /\ first_error[1].why \in ExtractionFailures)
        /\ nRepair > 0 => (first_error # None /\ first_error[1].why \in ExtractionFailures)

\* Rules are repaired after a first fetch that failed with FetchBlocked.
C29_RepairAfterFetchBlocked ==
    /\ InFlow
    /\ first_error = Some(Raise("ScraperError", "FetchBlocked"))
    /\ nFetch = 2
    /\ nRepair = 1

(***************************************************************************)
(* The keys of the rules of rule_detector_ai                               *)
(***************************************************************************)

KnownKeys ==
    {"product_item", "name_selector", "price_selector", "url_selector", "category_link"}

\* C30: whatever the page, the previous rules and the oracle outcome, the
\* RuleSet returned by fix_rules and by generate_rules has exactly the five
\* known keys: no unknown key and no missing one.
C30_ReturnedRulesHaveTheFiveKeys ==
    ((Calling("fix_rules") \/ Calling("generate_rules")) /\ ~ret[1].raised) =>
        DOMAIN ret[1].value = KnownKeys

\* fix_rules returns rules with the five keys when the previous rules have
\* an unknown key and lack known ones and the oracle's answer has an unknown
\* key as well.
C30_Witness ==
    /\ Calling("fix_rules")
    /\ ~ret[1].raised
    /\ DOMAIN Arg(2) \ KnownKeys # {}
    /\ KnownKeys \ DOMAIN Arg(2) # {}
    /\ Arg(3).type = "object"
    /\ DOMAIN Arg(3).members \ KnownKeys # {}
    /\ DOMAIN ret[1].value = KnownKeys

====
